---- MODULE Spec2Model ----
(***************************************************************************)
(* Model of the status-derivation and hydration core of recruiting_analyst *)
(* (src/src/analyst).  Optional values (Python None or a value) are        *)
(* sequences of length at most one: None is <<>> and a present value v is  *)
(* <<v>>.  Timestamps are naturals in 1..MaxTime.  Names are sequences of  *)
(* word tokens, and Python's substring test `p in s` is the test that the  *)
(* tokens of p occur contiguously in s.                                    *)
(***************************************************************************)
EXTENDS Integers, Sequences, FiniteSets, TLC

VARIABLES application, stage, called, result,
          greenhouse, by_id, pc, pos, applications, warnings, requests,
          current_job, cache, field_groups, clock_reads

vars == <<application, stage, called, result, greenhouse, by_id, pc, pos, applications, warnings,
          requests, current_job, cache, field_groups, clock_reads>>
\* the state of the Greenhouse client and of the job manager
client == <<greenhouse, by_id, pc, pos, applications, warnings, requests>>
\* the job a report is about, the job cache file, the field groups of a CSV
\* view, the calls of datetime.now made by the last operation
reports == <<current_job, cache, field_groups, clock_reads>>

(* ------------------------------ bounds --------------------------------- *)
MaxInterviews == 3
MaxTime == 2
MaxNameLen == 3
MaxTemplateInterviews == 2
MaxRecords == 3
MaxStages == 2
MaxScorecards == 2
MaxFields == 2
MaxJobs == 2
MaxWords == 2
MaxOpenings == 2
MaxActivities == 2
MaxNotes == 2
MaxScheduled == 2
MaxOrderedStages == 3

(* ------------------------- optionals, results -------------------------- *)
None == <<>>
Some(v) == <<v>>
Truthy(opt) == opt # None
Times == 1..MaxTime
OptTimes == {None} \cup {Some(t) : t \in Times}

Return(v) == [ok |-> TRUE, value |-> v]
Raise(e) == [ok |-> FALSE, error |-> e]
NotCalled == [ok |-> TRUE, value |-> "not called"]

SeqsUpTo(S, n) == UNION {[1..k -> S] : k \in 0..n}

(* ----------------------------- JobStage -------------------------------- *)
NameTokens == {"Take", "Home", "Test", "take"}
StageNames == SeqsUpTo(NameTokens, MaxNameLen)
TakeHome == <<"Take", "Home">>

\* Python `pat in name` on strings.
Contains(name, pat) ==
    \E i \in 1..(Len(name) - Len(pat) + 1) : SubSeq(name, i, i + Len(pat) - 1) = pat

Interview(id, name, schedulable) == [id |-> id, name |-> name, schedulable |-> schedulable]
JobStage(id, name, interviews) == [id |-> id, name |-> name, interviews |-> interviews]

\* any(interview.schedulable for interview in self.interviews), scanned left to right
RECURSIVE AnySchedulableFrom(_, _)
AnySchedulableFrom(interviews, i) ==
    IF i > Len(interviews) THEN FALSE
    ELSE IF interviews[i].schedulable THEN TRUE
    ELSE AnySchedulableFrom(interviews, i + 1)

is_schedulable(s) == AnySchedulableFrom(s.interviews, 1)

is_take_home_ignoring_schedulable(s) == Contains(s.name, TakeHome)
is_take_home(s) == ~is_schedulable(s) /\ Contains(s.name, TakeHome)

(* ---------------------------- Application ------------------------------ *)
InterviewStatus == {"SCHEDULED", "AWAITING_FEEDBACK", "COMPLETE"}
StageStatus == {"PENDING_AVAILABILITY_REQUEST", "WAITING_FOR_AVAILABILITY",
                "PENDING_SCHEDULING", "INTERVIEW_SCHEDULED", "PENDING_SCORECARD",
                "PENDING_DECISION"}
TakeHomeStatus == {"PENDING_SUBMISSION", "PENDING_GRADING", "PENDING_DECISION"}

ScheduledInterview(id, interview, created_at, date, status, interviewers, scorecards) ==
    [id |-> id, interview |-> interview, created_at |-> created_at, date |-> date,
     status |-> status, interviewers |-> interviewers, scorecards |-> scorecards]

User(id) == [id |-> id]
Scorecard(id, submitted_at, by, decision) ==
    [id |-> id, submitted_at |-> submitted_at, by |-> by, decision |-> decision]
TakeHomeGrading(id, submitted_at, by) == [id |-> id, submitted_at |-> submitted_at, by |-> by]

Application(id, job, current_stage, moved_to_stage_at, candidate_name, candidate_id, avail_req, avail_recv, th_sub, th_grading, interviews) ==
    [id |-> id, job |-> job, current_stage |-> current_stage,
     moved_to_stage_at |-> moved_to_stage_at,
     candidate_name |-> candidate_name, candidate_id |-> candidate_id,
     availability_requested_at |-> avail_req,
     availability_received_at |-> avail_recv,
     take_home_submitted_at |-> th_sub,
     take_home_grading |-> th_grading,
     interviews |-> interviews]

\* all(...) and any(...) over the interview list, scanned left to right
RECURSIVE AllStatusFrom(_, _, _)
AllStatusFrom(interviews, st, i) ==
    IF i > Len(interviews) THEN TRUE
    ELSE IF interviews[i].status # st THEN FALSE
    ELSE AllStatusFrom(interviews, st, i + 1)

RECURSIVE AnyStatusFrom(_, _, _)
AnyStatusFrom(interviews, st, i) ==
    IF i > Len(interviews) THEN FALSE
    ELSE IF interviews[i].status = st THEN TRUE
    ELSE AnyStatusFrom(interviews, st, i + 1)

get_take_home_status_submission_first(app) ==
    IF Truthy(app.take_home_submitted_at) THEN "PENDING_GRADING"
    ELSE IF Truthy(app.take_home_grading) THEN "PENDING_DECISION"
    ELSE "PENDING_SUBMISSION"

get_take_home_status(app) ==
    IF Truthy(app.take_home_grading) THEN "PENDING_DECISION"
    ELSE IF Truthy(app.take_home_submitted_at) THEN "PENDING_GRADING"
    ELSE "PENDING_SUBMISSION"

AvailabilityLadder(app) ==
    IF Truthy(app.availability_received_at) THEN "PENDING_SCHEDULING"
    ELSE IF Truthy(app.availability_requested_at) THEN "WAITING_FOR_AVAILABILITY"
    ELSE "PENDING_AVAILABILITY_REQUEST"

InterviewLadder(app) ==
    IF AllStatusFrom(app.interviews, "COMPLETE", 1) THEN "PENDING_DECISION"
    ELSE IF AnyStatusFrom(app.interviews, "AWAITING_FEEDBACK", 1) THEN "PENDING_SCORECARD"
    ELSE "INTERVIEW_SCHEDULED"

\* mutants of get_stage_status
get_stage_status_any_complete(app) ==
    IF app.interviews # <<>>
    THEN IF AnyStatusFrom(app.interviews, "COMPLETE", 1) THEN "PENDING_DECISION"
         ELSE IF AnyStatusFrom(app.interviews, "AWAITING_FEEDBACK", 1) THEN "PENDING_SCORECARD"
         ELSE "INTERVIEW_SCHEDULED"
    ELSE AvailabilityLadder(app)

get_stage_status_requested_first(app) ==
    IF app.interviews # <<>> THEN InterviewLadder(app)
    ELSE IF Truthy(app.availability_requested_at) THEN "WAITING_FOR_AVAILABILITY"
    ELSE IF Truthy(app.availability_received_at) THEN "PENDING_SCHEDULING"
    ELSE "PENDING_AVAILABILITY_REQUEST"

get_stage_status_availability_first(app) ==
    IF Truthy(app.availability_received_at) /\ ~AllStatusFrom(app.interviews, "COMPLETE", 1)
    THEN "PENDING_SCHEDULING"
    ELSE IF app.interviews # <<>> THEN InterviewLadder(app)
    ELSE AvailabilityLadder(app)

get_stage_status(app) ==
    IF app.interviews # <<>> THEN InterviewLadder(app) ELSE AvailabilityLadder(app)

(* ------------------------- blocker derivation -------------------------- *)
ApplicationBlocker(status, relevant_time_name, relevant_time) ==
    [status |-> status, relevant_time_name |-> relevant_time_name,
     relevant_time |-> relevant_time]

\* Python min(items, key=lambda x: x.created_at): the first item is the running
\* minimum; each later item is compared with `key(item) < key(minimum)`, which
\* raises TypeError when either key is None.
RECURSIVE MinByCreatedAtFrom(_, _, _)
MinByCreatedAtFrom(items, i, best) ==
    IF i > Len(items) THEN Return(best)
    ELSE IF items[i].created_at = None \/ best.created_at = None THEN Raise("TypeError")
    ELSE MinByCreatedAtFrom(items, i + 1,
             IF items[i].created_at[1] < best.created_at[1] THEN items[i] ELSE best)

MinByCreatedAt(items) ==
    IF items = <<>> THEN Raise("ValueError") ELSE MinByCreatedAtFrom(items, 2, items[1])

\* the tail of get_application_blocker: `if relevant_time: return ApplicationBlocker(...)`
BlockerOrNone(status, relevant_time_name, relevant_time) ==
    IF Truthy(relevant_time)
    THEN Return(Some(ApplicationBlocker(status, relevant_time_name, relevant_time)))
    ELSE Return(None)

get_application_blocker(app) ==
    LET status == get_stage_status(app) IN
    IF status = "PENDING_AVAILABILITY_REQUEST"
    THEN BlockerOrNone(status, Some("moved_to_stage_at"), app.moved_to_stage_at)
    ELSE IF status = "WAITING_FOR_AVAILABILITY"
    THEN BlockerOrNone(status, Some("availability_requested_at"), app.availability_requested_at)
    ELSE IF status = "PENDING_SCHEDULING"
    THEN BlockerOrNone(status, Some("availability_received_at"), app.availability_received_at)
    ELSE IF status \in {"PENDING_SCORECARD", "PENDING_DECISION"}
    THEN LET earliest_interview == MinByCreatedAt(app.interviews) IN
         IF earliest_interview.ok
         THEN BlockerOrNone(status, Some("interview_date"), earliest_interview.value.date)
         ELSE earliest_interview
    ELSE BlockerOrNone(status, None, None)

Reporter_get_application_blocker(app) ==
    LET status == get_stage_status(app) IN
    IF status = "PENDING_AVAILABILITY_REQUEST"
    THEN BlockerOrNone(status, Some("moved_to_stage_at"), app.moved_to_stage_at)
    ELSE IF status = "WAITING_FOR_AVAILABILITY"
    THEN BlockerOrNone(status, Some("availability_requested_at"), app.availability_requested_at)
    ELSE IF status = "PENDING_SCHEDULING"
    THEN BlockerOrNone(status, Some("availability_received_at"), app.availability_received_at)
    ELSE IF status \in {"PENDING_SCORECARD", "PENDING_DECISION"}
    THEN LET earliest_interview == MinByCreatedAt(app.interviews) IN
         IF earliest_interview.ok
         THEN BlockerOrNone(status, Some("interview_date"), earliest_interview.value.date)
         ELSE earliest_interview
    ELSE BlockerOrNone(status, None, None)

(* --------------------- report interview timing columns ----------------- *)
\* x.strftime('%Y-%m-%d %H:%M:%S') if x else None
Strftime(opt) == IF Truthy(opt) THEN Some(<<"%Y-%m-%d %H:%M:%S", opt[1]>>) ELSE None

HasCreatedAt(i) == Truthy(i.created_at)

\* InterviewTimes.get_values: the minimum is taken over the interviews that
\* have a created_at.
InterviewTimes_get_values(app) ==
    LET availability_requested_at == Strftime(app.availability_requested_at)
        availability_received_at == Strftime(app.availability_received_at)
        valid_interviews == SelectSeq(app.interviews, HasCreatedAt)
    IN IF app.interviews # <<>> /\ valid_interviews # <<>>
       THEN LET earliest_interview == MinByCreatedAt(valid_interviews) IN
            IF earliest_interview.ok
            THEN Return(<<availability_requested_at, availability_received_at,
                          Strftime(earliest_interview.value.created_at),
                          Strftime(earliest_interview.value.date)>>)
            ELSE earliest_interview
       ELSE Return(<<availability_requested_at, availability_received_at, None, None>>)

\* report_job_pipeline, the interview timing columns of one row: the minimum is
\* taken over all the interviews.
report_job_pipeline_interview_times(app) ==
    IF app.interviews # <<>>
    THEN LET earliest_interview == MinByCreatedAt(app.interviews) IN
         IF earliest_interview.ok
         THEN Return(<<Strftime(app.availability_requested_at),
                       Strftime(app.availability_received_at),
                       Strftime(earliest_interview.value.created_at),
                       Strftime(earliest_interview.value.date)>>)
         ELSE earliest_interview
    ELSE Return(<<Strftime(app.availability_requested_at),
                  Strftime(app.availability_received_at), None, None>>)

(* --------------------------- CSV field groups -------------------------- *)
FieldSpec ==
    {"Identifier", "CurrentStage", "StageType", "StageTime", "TakeHomeTimes", "InterviewTimes",
     "InterviewCounts", "Dimensions", "BlockContext", "TakeHomePendingGrading"}

FieldGroup_get_headers(field) ==
    CASE field = "Identifier" -> <<"candidate_name", "greenhouse_link">>
      [] field = "StageType" -> <<"stage_type", "stage_status">>
      [] field = "CurrentStage" -> <<"current_stage">>
      [] field = "StageTime" -> <<"moved_to_stage_at">>
      [] field = "TakeHomeTimes" -> <<"take_home_submitted_at", "take_home_graded_at">>
      [] field = "InterviewTimes" ->
           <<"availability_requested_at", "availability_received_at",
             "interview_scheduled_at", "interview_date">>
      [] field = "InterviewCounts" ->
           <<"scheduled_interviews_count", "completed_interviews_count">>
      [] field = "Dimensions" -> <<"recruiter_name", "location", "department">>
      [] field = "TakeHomePendingGrading" -> <<"hours_pending_grading">>
      [] field = "BlockContext" -> <<"last_event_time_reference", "blocked_hours">>

is_take_home_stage(app) == is_take_home(app.current_stage)
\* Application.is_relevant_stage without the test of the stage
is_relevant_stage_unfiltered(app) == TRUE

is_relevant_stage(app) == is_schedulable(app.current_stage) \/ is_take_home_stage(app)

\* round((now - t).total_seconds() / 3600, 1), kept as the instant it counts from
HoursSince(t) == <<"hours since", t>>

StageType_get_values(app) ==
    IF is_take_home_stage(app) THEN <<"take home", get_take_home_status(app)>>
    ELSE IF is_relevant_stage(app) THEN <<"interview", get_stage_status(app)>>
    ELSE <<"other", "Non-relevant">>

TakeHomeTimes_get_values(app) ==
    <<Strftime(app.take_home_submitted_at),
      IF Truthy(app.take_home_grading)
      THEN Strftime(Some(app.take_home_grading[1].submitted_at)) ELSE None>>

InterviewCounts_get_values(app) ==
    <<Len(app.interviews),
      Cardinality({i \in DOMAIN app.interviews : app.interviews[i].status = "COMPLETE"})>>

Dimensions_get_values(app) ==
    <<IF app.job.recruiters # <<>> THEN app.job.recruiters[1] ELSE "unknown",
      IF Truthy(app.job.location) THEN app.job.location[1] ELSE "Unknown",
      IF app.job.departments # <<>> THEN app.job.departments[1] ELSE "Unknown">>

TakeHomePendingGrading_get_values(app) ==
    <<IF Truthy(app.take_home_submitted_at) /\ ~Truthy(app.take_home_grading)
      THEN Some(HoursSince(app.take_home_submitted_at[1])) ELSE None>>

BlockContext_get_values(app) ==
    LET application_blocker == get_application_blocker(app) IN
    IF ~application_blocker.ok THEN application_blocker
    ELSE IF Truthy(application_blocker.value)
    THEN Return(<<application_blocker.value[1].relevant_time_name,
                  Some(HoursSince(application_blocker.value[1].relevant_time[1]))>>)
    ELSE Return(<<None, None>>)

FieldGroup_get_values(field, app) ==
    CASE field = "Identifier" ->
           Return(<<app.candidate_name, <<"people", app.candidate_id, "applications", app.id>>>>)
      [] field = "StageType" -> Return(StageType_get_values(app))
      [] field = "CurrentStage" -> Return(<<app.current_stage.name>>)
      [] field = "StageTime" -> Return(<<Strftime(app.moved_to_stage_at)>>)
      [] field = "TakeHomeTimes" -> Return(TakeHomeTimes_get_values(app))
      [] field = "InterviewTimes" -> InterviewTimes_get_values(app)
      [] field = "InterviewCounts" -> Return(InterviewCounts_get_values(app))
      [] field = "Dimensions" -> Return(Dimensions_get_values(app))
      [] field = "TakeHomePendingGrading" -> Return(TakeHomePendingGrading_get_values(app))
      [] field = "BlockContext" -> BlockContext_get_values(app)

\* ApplicationCSVWriter.get_headers
RECURSIVE get_headers_from(_, _)
get_headers_from(fields, i) ==
    IF i > Len(fields) THEN <<>>
    ELSE FieldGroup_get_headers(fields[i]) \o get_headers_from(fields, i + 1)

get_headers(fields) == get_headers_from(fields, 1)

\* ApplicationCSVWriter.generate_row; an exception of a group leaves the loop
RECURSIVE generate_row_from(_, _, _, _)
generate_row_from(fields, app, i, row) ==
    IF i > Len(fields) THEN Return(row)
    ELSE LET values == FieldGroup_get_values(fields[i], app) IN
         IF values.ok THEN generate_row_from(fields, app, i + 1, row \o values.value)
         ELSE values

generate_row(fields, app) == generate_row_from(fields, app, 1, <<>>)

\* The calls of datetime.now(timezone.utc) that get_values of a group makes:
\* one in TakeHomePendingGrading when the hours are computed, one in
\* ApplicationBlocker.time_elapsed when BlockContext has a blocker.
FieldGroup_clock_reads(field, app) ==
    CASE field = "TakeHomePendingGrading" ->
           IF Truthy(app.take_home_submitted_at) /\ ~Truthy(app.take_home_grading)
           THEN <<"TakeHomePendingGrading.get_values">> ELSE <<>>
      [] field = "BlockContext" ->
           LET application_blocker == get_application_blocker(app) IN
           IF application_blocker.ok /\ Truthy(application_blocker.value)
           THEN <<"ApplicationBlocker.time_elapsed">> ELSE <<>>
      [] OTHER -> <<>>

\* The clock reads of generate_row, in the order of the groups it reaches.
RECURSIVE generate_row_clock_reads(_, _, _)
generate_row_clock_reads(fields, app, i) ==
    IF i > Len(fields) THEN <<>>
    ELSE FieldGroup_clock_reads(fields[i], app)
         \o (IF FieldGroup_get_values(fields[i], app).ok
             THEN generate_row_clock_reads(fields, app, i + 1) ELSE <<>>)

(* ------------------------ Greenhouse API payloads ---------------------- *)
\* str(x): ids arrive as JSON numbers (or null) and are compared as strings.
Str(x) == <<"str", x>>

\* A created_at / submitted_at / date_time string: ISO-8601 text of instant t,
\* or text (also the "" default) that datetime.fromisoformat rejects.
Iso(t) == <<"iso", t>>
Garbage == <<"garbage">>
fromisoformat(raw) == IF raw[1] = "iso" THEN Return(raw[2]) ELSE Raise("ValueError")

\* str.upper() and str.lower() on the status / recommendation strings.
Upper(s) ==
    CASE s = "scheduled" -> "SCHEDULED"
      [] s = "awaiting_feedback" -> "AWAITING_FEEDBACK"
      [] s = "complete" -> "COMPLETE"
      [] s = "Complete" -> "COMPLETE"
      [] s = "cancelled" -> "CANCELLED"
      [] s = "yes" -> "YES"
      [] s = "no" -> "NO"
      [] s = "strong_yes" -> "STRONG_YES"
      [] s = "definitely_not" -> "DEFINITELY_NOT"
      [] s = "no_decision" -> "NO_DECISION"
      [] OTHER -> s
\* a comparison of the status that is sensitive to case
Lower_case_sensitive(s) == s
Lower(s) == IF s = "Complete" THEN "complete" ELSE s

ScorecardDecision == {"DEFINITELY_NOT", "NO", "NO_DECISION", "YES", "STRONG_YES"}
\* Enum(value): the member with that value, or ValueError
EnumOf(enum, value) == IF value \in enum THEN Return(value) ELSE Raise("ValueError")

\* What _make_rate_limited_request hands back: a response, or an exception
\* after the retries are used up.
Response(status_code, json) == [raised |-> FALSE, status_code |-> status_code, json |-> json]
RequestFailed == [raised |-> TRUE]
RequestError == "Exception: Request failed after 5 attempts"

\* Activity-feed entries.  The body is free text; it is kept as the phrase it
\* holds, the stage it names and the candidate it starts with.
Body(phrase, stage_name, who) == [phrase |-> phrase, stage |-> stage_name, who |-> who]
Activity(body, created_at) == [body |-> body, created_at |-> created_at]

\* f"was moved into {current_stage.name} for" in body
MovedIntoStage(body, stage_name) == body.phrase = "was moved into" /\ body.stage = stage_name
\* "submitted a take home test" in body
SubmittedTakeHome(body) == body.phrase = "submitted a take home test"
\* "scheduled" in body and f"{current_stage.name} interviews for" in body
SchedulingNote(body, stage_name) == body.phrase = "scheduled interviews for" /\ body.stage = stage_name
\* "availability from Received to Confirmation sent for" in body and f"({name})" in body
ConfirmationSent(body, stage_name) ==
    body.phrase = "availability from Received to Confirmation sent for" /\ body.stage = stage_name
\* "manually updated" ... "availability from Not requested to Requested for" ... f"({name})"
AvailabilityRequested(body, stage_name) ==
    body.phrase = "manually updated availability from Not requested to Requested for"
      /\ body.stage = stage_name
\* "submitted their availability for" in body and f"({name})" in body
AvailabilitySubmitted(body, stage_name) ==
    body.phrase = "submitted their availability for" /\ body.stage = stage_name

(* ----------------------------- hydration ------------------------------- *)
\* The outcome of _hydrate_application with the requests it issued, in order.
HReturn(v, reqs) == [ok |-> TRUE, value |-> v, requests |-> reqs]
HRaise(e, reqs) == [ok |-> FALSE, error |-> e, requests |-> reqs]

MinOf(S) == CHOOSE x \in S : \A y \in S : x <= y
MaxOf(S) == CHOOSE x \in S : \A y \in S : y <= x
\* The entries of an activity list whose body a pattern matches.
MovedIntoStageIn(items, stage_name) == {i \in DOMAIN items : MovedIntoStage(items[i].body, stage_name)}
SubmittedTakeHomeIn(items) == {i \in DOMAIN items : SubmittedTakeHome(items[i].body)}
SchedulingNoteIn(items, stage_name) == {i \in DOMAIN items : SchedulingNote(items[i].body, stage_name)}
ConfirmationSentIn(items, stage_name) == {i \in DOMAIN items : ConfirmationSent(items[i].body, stage_name)}
AvailabilityRequestedIn(items, stage_name) == {i \in DOMAIN items : AvailabilityRequested(items[i].body, stage_name)}
AvailabilitySubmittedIn(items, stage_name) == {i \in DOMAIN items : AvailabilitySubmitted(items[i].body, stage_name)}

\* a scan for the first match that goes on to the last match
FirstMatchTime_without_break(items, idx) ==
    IF idx = {} THEN Return(None)
    ELSE LET t == fromisoformat(items[MaxOf(idx)].created_at) IN
         IF t.ok THEN Return(Some(t.value)) ELSE t

\* for item in items: if <match>: x = fromisoformat(item.created_at); break
FirstMatchTime(items, idx) ==
    IF idx = {} THEN Return(None)
    ELSE LET t == fromisoformat(items[MinOf(idx)].created_at) IN
         IF t.ok THEN Return(Some(t.value)) ELSE t

\* a scan for the last match that stops at the first match
LastMatchTime_with_break(items, idx) ==
    IF idx = {} THEN Return(None)
    ELSE LET t == fromisoformat(items[MinOf(idx)].created_at) IN
         IF t.ok THEN Return(Some(t.value)) ELSE t

\* for item in items: if <match>: x = fromisoformat(item.created_at)   (no break)
LastMatchTime(items, idx) ==
    IF \E i \in idx : ~fromisoformat(items[i].created_at).ok THEN Raise("ValueError")
    ELSE IF idx = {} THEN Return(None)
    ELSE Return(Some(fromisoformat(items[MaxOf(idx)].created_at).value))

\* a lookup that falls back on the first interview of the stage
MatchingInterview_or_first(current_stage, interview_id) ==
    LET idx == {i \in DOMAIN current_stage.interviews :
                  current_stage.interviews[i].id = interview_id} IN
    IF idx # {} THEN Some(current_stage.interviews[MinOf(idx)])
    ELSE IF current_stage.interviews = <<>> THEN None
    ELSE Some(current_stage.interviews[1])

\* for interview in current_stage.interviews: if interview.id == interview_id: ...; break
MatchingInterview(current_stage, interview_id) ==
    LET idx == {i \in DOMAIN current_stage.interviews :
                  current_stage.interviews[i].id = interview_id} IN
    IF idx = {} THEN None ELSE Some(current_stage.interviews[MinOf(idx)])

\* The scorecard loop of the take-home branch: the inner `break` leaves only
\* the loop over the stage's interviews, so every matching scorecard is parsed
\* and assigned in turn.
RECURSIVE TakeHomeGradingFrom(_, _, _, _)
TakeHomeGradingFrom(scorecards, current_stage, i, take_home_grading) ==
    IF i > Len(scorecards) THEN Return(take_home_grading)
    ELSE IF MatchingInterview(current_stage, Str(scorecards[i].interview_step_id)) # None
    THEN LET t == fromisoformat(scorecards[i].submitted_at) IN
         IF t.ok
         THEN TakeHomeGradingFrom(scorecards, current_stage, i + 1,
                  Some(TakeHomeGrading(Str(scorecards[i].id), t.value,
                                       User(Str(scorecards[i].submitted_by)))))
         ELSE t
    ELSE TakeHomeGradingFrom(scorecards, current_stage, i + 1, take_home_grading)

\* all_scorecards[scorecard_id] = Scorecard(...), a dict keyed by str(id)
RECURSIVE AllScorecardsFrom(_, _, _)
AllScorecardsFrom(scorecards_data, i, all_scorecards) ==
    IF i > Len(scorecards_data) THEN Return(all_scorecards)
    ELSE LET d == scorecards_data[i]
             scorecard_id == Str(d.id)
             t == fromisoformat(d.submitted_at)
             decision == EnumOf(ScorecardDecision, Upper(d.overall_recommendation))
         IN IF ~t.ok THEN t
            ELSE IF ~decision.ok THEN decision
            ELSE AllScorecardsFrom(scorecards_data, i + 1,
                   [k \in DOMAIN all_scorecards \cup {scorecard_id} |->
                      IF k = scorecard_id
                      THEN Scorecard(scorecard_id, t.value, User(Str(d.submitted_by)), decision.value)
                      ELSE all_scorecards[k]])

EmptyDict == [k \in {} |-> None]

RECURSIVE InterviewerScorecards(_, _, _)
InterviewerScorecards(interviewers_data, all_scorecards, i) ==
    IF i > Len(interviewers_data) THEN <<>>
    ELSE LET scorecard_id == interviewers_data[i].scorecard_id
             rest == InterviewerScorecards(interviewers_data, all_scorecards, i + 1)
         IN IF Truthy(scorecard_id) /\ Str(scorecard_id[1]) \in DOMAIN all_scorecards
            THEN <<all_scorecards[Str(scorecard_id[1])]>> \o rest
            ELSE rest

\* a scan in which a confirmation activity overrides the scheduling note
InterviewScheduledAt_activity_first(notes, activities, stage_name) ==
    LET from_activities == FirstMatchTime(activities, ConfirmationSentIn(activities, stage_name)) IN
    IF ~from_activities.ok THEN from_activities
    ELSE IF from_activities.value # None THEN from_activities
    ELSE FirstMatchTime(notes, SchedulingNoteIn(notes, stage_name))

\* interview_scheduled_at: the first matching note, else the first matching activity
InterviewScheduledAt(notes, activities, stage_name) ==
    LET from_notes == FirstMatchTime(notes, SchedulingNoteIn(notes, stage_name)) IN
    IF ~from_notes.ok THEN from_notes
    ELSE IF from_notes.value # None THEN from_notes
    ELSE FirstMatchTime(activities, ConfirmationSentIn(activities, stage_name))

\* The body of `for scheduled_interview_data in scheduled_interviews_data`
RECURSIVE ScheduledInterviewsFrom(_, _, _, _, _, _, _)
ScheduledInterviewsFrom(data, i, interviews, current_stage, all_scorecards, notes, activities) ==
    IF i > Len(data) THEN Return(interviews)
    ELSE LET d == data[i]
             matching_interview == MatchingInterview(current_stage, Str(d.interview_id))
         IN IF matching_interview = None
            THEN ScheduledInterviewsFrom(data, i + 1, interviews, current_stage,
                                         all_scorecards, notes, activities)
            ELSE LET interviewers == [k \in DOMAIN d.interviewers |-> User(Str(d.interviewers[k].id))]
                     scorecards == IF Lower(d.status) = "complete"
                                   THEN InterviewerScorecards(d.interviewers, all_scorecards, 1)
                                   ELSE <<>>
                     interview_scheduled_at ==
                         InterviewScheduledAt(notes, activities, current_stage.name)
                     date == fromisoformat(d.start)
                     status == EnumOf(InterviewStatus, Upper(d.status))
                 IN IF ~interview_scheduled_at.ok THEN interview_scheduled_at
                    ELSE IF ~date.ok THEN date
                    ELSE IF ~status.ok THEN status
                    ELSE ScheduledInterviewsFrom(data, i + 1,
                           Append(interviews,
                                  ScheduledInterview(Str(d.id), matching_interview[1],
                                                     interview_scheduled_at.value, Some(date.value),
                                                     status.value, interviewers, scorecards)),
                           current_stage, all_scorecards, notes, activities)

\* return Application(...) of the take-home branch, with the same fields but
\* the submission time dropped once a grading exists
TakeHomeApplication_exclusive(application_id, candidate_id, job, current_stage, moved_to_stage_at, candidate_name, take_home_submitted_at, take_home_grading) ==
    Application(application_id, job, current_stage, moved_to_stage_at, candidate_name,
                candidate_id, None, None,
                IF take_home_grading # None THEN None ELSE take_home_submitted_at,
                take_home_grading, <<>>)

\* return Application(...) of the take-home branch
TakeHomeApplication(application_id, candidate_id, job, current_stage, moved_to_stage_at, candidate_name, take_home_submitted_at, take_home_grading) ==
    Application(application_id, job, current_stage, moved_to_stage_at, candidate_name,
                candidate_id, None, None, take_home_submitted_at, take_home_grading, <<>>)

\* _hydrate_application after the activity feed was fetched and the stage-entry
\* activity parsed: the take-home branch.
HydrateTakeHome(application_id, candidate_id, job, current_stage, api, activities, moved_to_stage_at, candidate_name) ==
    LET take_home_submitted_at == FirstMatchTime(activities, SubmittedTakeHomeIn(activities))
        reqs == <<"activity_feed", "scorecards">>
    IN IF ~take_home_submitted_at.ok
       THEN HRaise(take_home_submitted_at.error, <<"activity_feed">>)
       ELSE IF api.scorecards.raised THEN HRaise(RequestError, reqs)
       ELSE LET take_home_grading ==
                  IF api.scorecards.status_code = 200
                  THEN TakeHomeGradingFrom(api.scorecards.json, current_stage, 1, None)
                  ELSE Return(None)
            IN IF ~take_home_grading.ok THEN HRaise(take_home_grading.error, reqs)
               ELSE HReturn(TakeHomeApplication(application_id, candidate_id, job,
                                                current_stage, moved_to_stage_at, candidate_name,
                                                take_home_submitted_at.value,
                                                take_home_grading.value), reqs)

\* ... and the branch for schedulable stages.
HydrateInterviews(application_id, candidate_id, job, current_stage, api, activities, notes, moved_to_stage_at, candidate_name) ==
    LET reqs1 == <<"activity_feed", "scheduled_interviews">>
        reqs == <<"activity_feed", "scheduled_interviews", "scorecards">>
    IN IF api.scheduled_interviews.raised THEN HRaise(RequestError, reqs1)
       ELSE IF api.scorecards.raised THEN HRaise(RequestError, reqs)
       ELSE LET all_scorecards ==
                  IF api.scorecards.status_code = 200
                  THEN AllScorecardsFrom(api.scorecards.json, 1, EmptyDict)
                  ELSE Return(EmptyDict)
            IN IF ~all_scorecards.ok THEN HRaise(all_scorecards.error, reqs)
               ELSE LET interviews ==
                          IF api.scheduled_interviews.status_code = 200
                          THEN ScheduledInterviewsFrom(api.scheduled_interviews.json, 1, <<>>,
                                                       current_stage, all_scorecards.value,
                                                       notes, activities)
                          ELSE Return(<<>>)
                        availability_requested_at ==
                          LastMatchTime(activities, AvailabilityRequestedIn(activities, current_stage.name))
                        availability_received_at ==
                          LastMatchTime(activities, AvailabilitySubmittedIn(activities, current_stage.name))
                    IN IF ~interviews.ok THEN HRaise(interviews.error, reqs)
                       ELSE IF ~availability_requested_at.ok \/ ~availability_received_at.ok
                       THEN HRaise("ValueError", reqs)
                       ELSE HReturn(Application(application_id, job, current_stage,
                                                moved_to_stage_at, candidate_name, candidate_id,
                                                availability_requested_at.value,
                                                availability_received_at.value, None, None,
                                                interviews.value), reqs)

\* a basic application that is returned only after the activity feed was read
HydrateMinimal_after_feed(application_id, candidate_id, job, current_stage) ==
    HReturn(Application(application_id, job, current_stage, None, None, candidate_id,
                        None, None, None, None, <<>>), <<"activity_feed">>)

\* "Return basic application without further processing"
HydrateMinimal(application_id, candidate_id, job, current_stage) ==
    HReturn(Application(application_id, job, current_stage, None, None, candidate_id,
                        None, None, None, None, <<>>), <<>>)

\* api: the responses to this application's activity_feed, scheduled_interviews
\* and scorecards requests.
hydrate_application(app_data, job, current_stage, api) ==
    LET application_id == Str(app_data.id)
        candidate_id == Str(app_data.candidate_id)
    IN IF ~is_schedulable(current_stage) /\ ~is_take_home(current_stage)
       THEN HydrateMinimal(application_id, candidate_id, job, current_stage)
       ELSE IF api.activity_feed.raised THEN HRaise(RequestError, <<"activity_feed">>)
       ELSE IF api.activity_feed.status_code # 200
       THEN HRaise("Exception: Failed to fetch activity feed", <<"activity_feed">>)
       ELSE LET activities == api.activity_feed.json.activities
                notes == api.activity_feed.json.notes
                moved == MovedIntoStageIn(activities, current_stage.name)
                moved_to_stage_at == FirstMatchTime(activities, moved)
                candidate_name ==
                    IF moved = {} THEN None ELSE Some(activities[MinOf(moved)].body.who)
            IN IF ~moved_to_stage_at.ok THEN HRaise(moved_to_stage_at.error, <<"activity_feed">>)
               ELSE IF is_take_home(current_stage)
               THEN HydrateTakeHome(application_id, candidate_id, job, current_stage, api,
                                    activities, moved_to_stage_at.value, candidate_name)
               ELSE HydrateInterviews(application_id, candidate_id, job, current_stage, api,
                                      activities, notes, moved_to_stage_at.value, candidate_name)

(* ------------------- get_application, get_applications_for_job --------- *)
RoleFunction == {"Engineer", "Other"}
Seniority == {"SWE1", "SWE2", "Senior", "Staff", "Unknown"}
Role(function, seniority) == [function |-> function, seniority |-> seniority]
Job(id, name, role, stages) == [id |-> id, name |-> name, role |-> role, stages |-> stages]

TakeHomeTest == <<"Take", "Home", "Test">>
DevAITechnicalScreen == <<"DevAI", "Technical", "Screen">>

\* any(stage.is_take_home for stage in self.stages)
has_take_home_stage(j) == \E i \in DOMAIN j.stages : is_take_home(j.stages[i])

is_ai_eligible(j) == j.role.function = "Engineer"

is_ai_enabled_by_take_home_stage(j) ==
    IF j.role.function # "Engineer" THEN FALSE
    ELSE IF j.role.seniority \in {"SWE1", "SWE2"} /\ has_take_home_stage(j)
    THEN TRUE
    ELSE j.role.seniority = "Senior"
           /\ \E i \in DOMAIN j.stages : \E k \in DOMAIN j.stages[i].interviews :
                 Contains(j.stages[i].interviews[k].name, DevAITechnicalScreen)

\* The two loops return True at their first hit; control falls from the first
\* `if` to the second and then to `return False`.
is_ai_enabled(j) ==
    IF j.role.function # "Engineer" THEN FALSE
    ELSE IF j.role.seniority \in {"SWE1", "SWE2"}
              /\ \E i \in DOMAIN j.stages : Contains(j.stages[i].name, TakeHomeTest)
    THEN TRUE
    ELSE IF j.role.seniority = "Senior"
              /\ \E i \in DOMAIN j.stages : \E k \in DOMAIN j.stages[i].interviews :
                    Contains(j.stages[i].interviews[k].name, DevAITechnicalScreen)
    THEN TRUE
    ELSE FALSE

\* Job.at_or_after_take_home_submission(stage): the stage is in job.stages at
\* or after the first take-home stage (the method the tests of
\* tests/analyst/test_dataclasses.py, TestJobTakeHomeSubmission, call).
at_or_after_take_home_submission(j, s) ==
    LET take_home_stages == {i \in DOMAIN j.stages : is_take_home(j.stages[i])} IN
    IF take_home_stages = {} THEN FALSE
    ELSE \E i \in DOMAIN j.stages : j.stages[i] = s /\ i >= MinOf(take_home_stages)

\* for stage in job.stages: if stage.id == current_stage_id: current_stage = stage; break
FindStage(job, current_stage_id) ==
    LET idx == {i \in DOMAIN job.stages : job.stages[i].id = current_stage_id} IN
    IF idx = {} THEN None ELSE Some(job.stages[MinOf(idx)])

\* JobManager.get_by_id: self.by_id.get(id)
get_by_id(jobs_by_id, id) == IF id \in DOMAIN jobs_by_id THEN Some(jobs_by_id[id]) ELSE None

get_application_skipping_failed_hydration(jobs_by_id, a) ==
    LET r0 == <<"application">> IN
    IF a.application.raised THEN HRaise(RequestError, r0)
    ELSE IF a.application.status_code # 200
    THEN HRaise("Exception: Failed to fetch application", r0)
    ELSE LET app_data == a.application.json IN
         IF app_data.jobs = <<>> THEN HRaise("ValueError: No job found in application", r0)
         ELSE LET job == get_by_id(jobs_by_id, Str(app_data.jobs[1].id)) IN
              IF job = None THEN HRaise("ValueError: Job not found in job manager", r0)
              ELSE LET current_stage == FindStage(job[1], Str(app_data.current_stage.id)) IN
                   IF current_stage = None
                   THEN HRaise("ValueError: Current stage not found in job", r0)
                   ELSE LET h == hydrate_application(app_data, job[1], current_stage[1], a) IN
                        IF h.ok THEN HReturn(h.value, r0 \o h.requests)
                        ELSE HReturn(None, r0 \o h.requests)

\* a: the responses to the application request and to the hydration requests
get_application(jobs_by_id, a) ==
    LET r0 == <<"application">> IN
    IF a.application.raised THEN HRaise(RequestError, r0)
    ELSE IF a.application.status_code # 200
    THEN HRaise("Exception: Failed to fetch application", r0)
    ELSE LET app_data == a.application.json IN
         IF app_data.jobs = <<>> THEN HRaise("ValueError: No job found in application", r0)
         ELSE LET job == get_by_id(jobs_by_id, Str(app_data.jobs[1].id)) IN
              IF job = None THEN HRaise("ValueError: Job not found in job manager", r0)
              ELSE LET current_stage == FindStage(job[1], Str(app_data.current_stage.id)) IN
                   IF current_stage = None
                   THEN HRaise("ValueError: Current stage not found in job", r0)
                   ELSE LET h == hydrate_application(app_data, job[1], current_stage[1], a) IN
                        [h EXCEPT !.requests = r0 \o h.requests]

\* get_applications_for_job(job) as one call; api holds the response to the
\* applications request and, per raw record, the responses to its hydration.
RECURSIVE applications_for_job_from(_, _, _, _)
applications_for_job_from(job, api, i, apps) ==
    IF i > Len(api.applications.json) THEN Return(apps)
    ELSE LET app_data == api.applications.json[i]
             current_stage == FindStage(job, Str(app_data.current_stage.id))
         IN IF app_data.prospect \/ current_stage = None
            THEN applications_for_job_from(job, api, i + 1, apps)
            ELSE LET h == hydrate_application(app_data, job, current_stage[1], api.worlds[i])
                 IN applications_for_job_from(job, api, i + 1,
                                              IF h.ok THEN Append(apps, h.value) ELSE apps)

get_applications_for_job(job, api) ==
    IF api.applications.raised THEN Raise(RequestError)
    ELSE IF api.applications.status_code # 200
    THEN Raise("Exception: Failed to fetch applications")
    ELSE applications_for_job_from(job, api, 1, <<>>)

(* ----------------------------- job cache ------------------------------- *)
\* Calling a dataclass with keyword arguments: every field of the class has
\* to be given, else TypeError (missing required positional argument).
DataclassInit(fields, kwargs) ==
    IF fields \subseteq DOMAIN kwargs THEN Return(kwargs) ELSE Raise("TypeError")

\* refresh_cache: the dictionary written for one job.
JobDict(j) ==
    [id |-> j.id, name |-> j.name,
     role |-> [function |-> j.role.function, seniority |-> j.role.seniority],
     stages |-> [i \in DOMAIN j.stages |->
                   [name |-> j.stages[i].name,
                    interviews |-> [k \in DOMAIN j.stages[i].interviews |->
                        [name |-> j.stages[i].interviews[k].name,
                         schedulable |-> j.stages[i].interviews[k].schedulable]]]]]

\* _load_cache: Interview(name=..., schedulable=...) for each entry of a stage
RECURSIVE LoadInterviewsFrom(_, _, _)
LoadInterviewsFrom(interviews_data, k, interviews) ==
    IF k > Len(interviews_data) THEN Return(interviews)
    ELSE LET interview == DataclassInit({"id", "name", "schedulable"},
                              [name |-> interviews_data[k].name,
                               schedulable |-> interviews_data[k].schedulable])
         IN IF interview.ok
            THEN LoadInterviewsFrom(interviews_data, k + 1, Append(interviews, interview.value))
            ELSE interview

\* _load_cache: JobStage(name=..., interviews=...) for each stage of a job
RECURSIVE LoadStagesFrom(_, _, _)
LoadStagesFrom(stages_data, i, stages) ==
    IF i > Len(stages_data) THEN Return(stages)
    ELSE LET interviews == LoadInterviewsFrom(stages_data[i].interviews, 1, <<>>) IN
         IF ~interviews.ok THEN interviews
         ELSE LET stage_ == DataclassInit({"id", "name", "interviews"},
                                [name |-> stages_data[i].name,
                                 interviews |-> interviews.value])
              IN IF stage_.ok THEN LoadStagesFrom(stages_data, i + 1, Append(stages, stage_.value))
                 ELSE stage_

\* _load_cache: the try block for one job_data
LoadJob(job_data) ==
    LET function == EnumOf(RoleFunction, job_data.role.function)
        seniority == EnumOf(Seniority, job_data.role.seniority)
    IN IF ~function.ok THEN function
       ELSE IF ~seniority.ok THEN seniority
       ELSE LET stages == LoadStagesFrom(job_data.stages, 1, <<>>) IN
            IF ~stages.ok THEN stages
            ELSE Return(Job(job_data.id, job_data.name,
                            Role(function.value, seniority.value), stages.value))

\* _load_cache: a job whose reconstruction raises is skipped with a warning
RECURSIVE load_cache_from(_, _, _)
load_cache_from(jobs_data, i, jobs_by_id) ==
    IF i > Len(jobs_data) THEN jobs_by_id
    ELSE LET loaded == LoadJob(jobs_data[i]) IN
         IF loaded.ok
         THEN load_cache_from(jobs_data, i + 1,
                  [id \in DOMAIN jobs_by_id \cup {loaded.value.id} |->
                     IF id = loaded.value.id THEN loaded.value ELSE jobs_by_id[id]])
         ELSE load_cache_from(jobs_data, i + 1, jobs_by_id)

load_cache(jobs_data) == load_cache_from(jobs_data, 1, [id \in {} |-> None])

(* ------------------------------ Reporter ------------------------------- *)
\* JobManager.get_all_jobs(): the jobs the manager holds, in the order all_jobs
\* lists them.
get_all_jobs(jobs_by_id, all_jobs) ==
    LET Held(j) == j.id \in DOMAIN jobs_by_id /\ jobs_by_id[j.id] = j
    IN SelectSeq(all_jobs, Held)

\* for application in applications: if not application.is_relevant_stage(): continue
RelevantApplications(apps) == SelectSeq(apps, is_relevant_stage)
TakeHomeStageApplications(apps) == SelectSeq(apps, is_take_home_stage)

\* The loop over the jobs of a snapshot: the applications of each job are
\* fetched and filtered in turn; a failed fetch ends the snapshot.
RECURSIVE interview_snapshot_from(_, _, _, _)
interview_snapshot_from(jobs, apis, i, apps) ==
    IF i > Len(jobs) THEN Return(apps)
    ELSE LET job_applications == get_applications_for_job(jobs[i], apis[jobs[i].id]) IN
         IF ~job_applications.ok THEN job_applications
         ELSE interview_snapshot_from(jobs, apis, i + 1,
                                      apps \o RelevantApplications(job_applications.value))

interview_snapshot(jobs, apis) == interview_snapshot_from(jobs, apis, 1, <<>>)

RECURSIVE take_home_snapshot_from(_, _, _, _)
take_home_snapshot_from(jobs, apis, i, apps) ==
    IF i > Len(jobs) THEN Return(apps)
    ELSE LET job_applications == get_applications_for_job(jobs[i], apis[jobs[i].id]) IN
         IF ~job_applications.ok THEN job_applications
         ELSE take_home_snapshot_from(jobs, apis, i + 1,
                                      apps \o TakeHomeStageApplications(job_applications.value))

take_home_pipeline_snapshot(jobs, apis) ==
    LET ai_enabled_jobs == SelectSeq(jobs, is_ai_enabled)
        jobs_with_take_homes == SelectSeq(ai_enabled_jobs, has_take_home_stage)
    IN take_home_snapshot_from(jobs_with_take_homes, apis, 1, <<>>)

(* ------------------------- report_job_pipeline ------------------------- *)
\* One pass of `for application in applications`: nothing for stage type
\* "other", else the row.
report_job_pipeline_row(job, app) ==
    LET stage_type == StageType_get_values(app)[1]
        stage_status == StageType_get_values(app)[2]
        times == report_job_pipeline_interview_times(app)
    IN IF stage_type = "other" THEN Return(None)
       ELSE IF ~times.ok THEN times
       ELSE Return(Some(<<app.id, app.current_stage.name, stage_type, stage_status,
                          Strftime(app.moved_to_stage_at)>> \o times.value \o
                        TakeHomeTimes_get_values(app) \o InterviewCounts_get_values(app) \o
                        <<IF job.recruiters # <<>> THEN job.recruiters[1] ELSE "Unknown",
                          IF Truthy(job.location) THEN job.location[1] ELSE "Unknown",
                          IF job.departments # <<>> THEN job.departments[1] ELSE "Unknown">>))

\* The rows written to stdout; an exception ends the report after the rows
\* written so far.
RECURSIVE report_rows_from(_, _, _, _)
report_rows_from(job, apps, i, rows) ==
    IF i > Len(apps) THEN [rows |-> rows, outcome |-> Return("done")]
    ELSE LET row == report_job_pipeline_row(job, apps[i]) IN
         IF ~row.ok THEN [rows |-> rows, outcome |-> row]
         ELSE report_rows_from(job, apps, i + 1,
                               IF row.value = None THEN rows ELSE Append(rows, row.value[1]))

report_job_pipeline(jobs_by_id, job_id, apis) ==
    LET job == get_by_id(jobs_by_id, job_id) IN
    IF job = None THEN [rows |-> <<>>, outcome |-> Return("not found in cache")]
    ELSE LET applications_ == get_applications_for_job(job[1], apis[job_id]) IN
         IF ~applications_.ok THEN [rows |-> <<>>, outcome |-> applications_]
         ELSE report_rows_from(job[1], applications_.value, 1, <<>>)

(* --------------------------- API responses ----------------------------- *)
\* The job template of the client tests (tests/client/test_data.py), with a
\* take-home stage and a stage without interviews added.
EvaluationStage ==
    JobStage(Str(1), <<"Evaluation", "Stage">>,
             <<Interview(Str(11), <<"Technical", "Phone", "Screen">>, TRUE),
               Interview(Str(12), <<"System", "Design">>, TRUE)>>)
TakeHomeStage ==
    JobStage(Str(2), <<"Take", "Home", "Test">>,
             <<Interview(Str(21), <<"Take", "Home", "Test">>, FALSE)>>)
OfferStage == JobStage(Str(3), <<"Offer">>, <<>>)
LiveTakeHomeStage ==
    JobStage(Str(4), <<"Take", "Home", "Review">>,
             <<Interview(Str(41), <<"Take", "Home", "Review">>, TRUE)>>)
EngineerJob ==
    Job(Str(1), <<"Software", "Engineer", "2">>, Role("Engineer", "SWE2"),
        <<EvaluationStage, TakeHomeStage, OfferStage, LiveTakeHomeStage>>)

StageById(raw_id) == FindStage(EngineerJob, Str(raw_id))

\* The responses for one application whose current stage has raw id
\* stage_id, with one fault injected (or "none").
Faults == {"none", "feed_raised", "feed_non200", "bad_timestamp", "unknown_status",
           "interviews_raised", "interviews_non200", "scorecards_raised",
           "scorecards_non200"}

FeedJson(stage_name, fault) ==
    [activities |->
        <<Activity(Body("was moved into", stage_name, "John Doe"),
                   IF fault = "bad_timestamp" THEN Garbage ELSE Iso(1)),
          Activity(Body("manually updated availability from Not requested to Requested for",
                        stage_name, "Jane Smith"), Iso(1)),
          Activity(Body("submitted their availability for", stage_name, "John Doe"), Iso(2)),
          Activity(Body("submitted a take home test", <<>>, "John Doe"), Iso(2))>>,
     notes |-> <<Activity(Body("scheduled interviews for", stage_name, "Jane Smith"), Iso(2))>>]

ScheduledInterviewsJson(fault) ==
    <<[id |-> 31, interview_id |-> 11,
       status |-> IF fault = "unknown_status" THEN "cancelled" ELSE "complete",
       start |-> Iso(2),
       interviewers |-> <<[id |-> 7, scorecard_id |-> Some(70)], [id |-> 8, scorecard_id |-> None]>>],
      [id |-> 32, interview_id |-> 99, status |-> "scheduled", start |-> Iso(2),
       interviewers |-> <<>>]>>

ScorecardsJson(interview_step_id) ==
    <<[id |-> 70, interview_step_id |-> interview_step_id, submitted_at |-> Iso(2),
       submitted_by |-> 7, overall_recommendation |-> "yes"]>>

World(stage_id, fault) ==
    LET s == StageById(stage_id)
        stage_name == IF s = None THEN <<>> ELSE s[1].name
    IN [activity_feed |->
          IF fault = "feed_raised" THEN RequestFailed
          ELSE IF fault = "feed_non200" THEN Response(500, <<>>)
          ELSE Response(200, FeedJson(stage_name, fault)),
        scheduled_interviews |->
          IF fault = "interviews_raised" THEN RequestFailed
          ELSE IF fault = "interviews_non200" THEN Response(404, <<>>)
          ELSE Response(200, ScheduledInterviewsJson(fault)),
        scorecards |->
          IF fault = "scorecards_raised" THEN RequestFailed
          ELSE IF fault = "scorecards_non200" THEN Response(404, <<>>)
          ELSE Response(200, ScorecardsJson(IF stage_id = 2 THEN 21 ELSE 11))]

AppData(id, prospect, stage_id, jobs) ==
    [id |-> id, candidate_id |-> 1000 + id, prospect |-> prospect,
     current_stage |-> [id |-> stage_id], jobs |-> jobs]

(* --------------------- specification: status derivation ---------------- *)
\* The stage of the applications whose status is derived (tests/analyst/test_dataclasses.py).
PhoneScreen == <<"Phone", "Screen">>
TechnicalPhoneScreen == Interview("int1", <<"Technical", "Phone", "Screen">>, TRUE)
PhoneScreenStage == JobStage("stage1", PhoneScreen, <<TechnicalPhoneScreen>>)

NoStage == JobStage("", <<>>, <<>>)
NoApi == [application |-> RequestFailed]
NoJobs == [k \in {} |-> None]
ClientIdle ==
    /\ greenhouse = NoApi
    /\ by_id = NoJobs
    /\ pc = "idle"
    /\ pos = 0
    /\ applications = <<>>
    /\ warnings = <<>>
    /\ requests = <<>>
NoJob == Job("", <<>>, Role("Other", "Unknown"), <<>>)
NoCache == <<>>
ReportsIdle ==
    /\ current_job = NoJob
    /\ cache = NoCache
    /\ field_groups = <<>>
    /\ clock_reads = <<>>
NoApplication == Application("", "", NoStage, None, None, "", None, None, None, None, <<>>)

OptGradings == {None, Some(TakeHomeGrading("sc1", 1, User("user1")))}

\* Applications as the tests construct them: any interview statuses, any
\* availability and take-home fields.
StatusInterviewLists ==
    UNION {{[i \in 1..n |-> ScheduledInterview(i, TechnicalPhoneScreen, None, Some(1), sts[i], <<>>, <<>>)] :
              sts \in [1..n -> InterviewStatus]} : n \in 0..MaxInterviews}

StatusInit ==
    /\ \E ivs \in StatusInterviewLists, req \in OptTimes, recv \in OptTimes,
          sub \in OptTimes, gr \in OptGradings :
         application = Application("app1", "123", PhoneScreenStage, Some(1), Some("Test Candidate"),
                                   "candidate1", req, recv, sub, gr, ivs)
    /\ stage = NoStage
    /\ called = "none"
    /\ result = NotCalled
    /\ ClientIdle
    /\ ReportsIdle

CallGetStageStatus ==
    /\ called = "none"
    /\ called' = "get_stage_status"
    /\ result' = Return(get_stage_status(application))
    /\ UNCHANGED <<application, stage, client, reports>>

CallGetTakeHomeStatus ==
    /\ called = "none"
    /\ called' = "get_take_home_status"
    /\ result' = Return(get_take_home_status(application))
    /\ UNCHANGED <<application, stage, client, reports>>

StatusNext == CallGetStageStatus \/ CallGetTakeHomeStatus

Spec == StatusInit /\ [][StatusNext]_vars

(* ----------------------- claims on status derivation ------------------- *)
Statuses(app) == {app.interviews[i].status : i \in DOMAIN app.interviews}
StatusSeq(app) == [i \in DOMAIN app.interviews |-> app.interviews[i].status]
StageStatusReturned == called = "get_stage_status" /\ result.ok

\* C1: with a non-empty interview list get_stage_status is PENDING_DECISION if
\* every interview is COMPLETE, else PENDING_SCORECARD if some interview is
\* AWAITING_FEEDBACK, else INTERVIEW_SCHEDULED; [COMPLETE, AWAITING_FEEDBACK]
\* gives PENDING_SCORECARD; INTERVIEW_SCHEDULED is returned exactly when some
\* interview is SCHEDULED and none is AWAITING_FEEDBACK.
C1_InterviewPriority ==
    (called = "get_stage_status" /\ application.interviews # <<>>) =>
        /\ result.ok
        /\ result.value =
             IF \A i \in DOMAIN application.interviews :
                    application.interviews[i].status = "COMPLETE"
             THEN "PENDING_DECISION"
             ELSE IF \E i \in DOMAIN application.interviews :
                         application.interviews[i].status = "AWAITING_FEEDBACK"
                  THEN "PENDING_SCORECARD"
                  ELSE "INTERVIEW_SCHEDULED"
        /\ (StatusSeq(application) = <<"COMPLETE", "AWAITING_FEEDBACK">>
              => result.value = "PENDING_SCORECARD")
        /\ (result.value = "INTERVIEW_SCHEDULED"
              <=> ("SCHEDULED" \in Statuses(application)
                   /\ "AWAITING_FEEDBACK" \notin Statuses(application)))

C1_Witness ==
    /\ StageStatusReturned
    /\ StatusSeq(application) = <<"COMPLETE", "AWAITING_FEEDBACK">>
    /\ result.value = "PENDING_SCORECARD"

\* C2: with no interviews get_stage_status is a function of the two
\* availability fields only: PENDING_SCHEDULING if availability_received_at is
\* set, else WAITING_FOR_AVAILABILITY if availability_requested_at is set, else
\* PENDING_AVAILABILITY_REQUEST, whatever the other fields hold.
C2_AvailabilityLadder ==
    (called = "get_stage_status" /\ application.interviews = <<>>) =>
        /\ result.ok
        /\ result.value =
             IF application.availability_received_at # None THEN "PENDING_SCHEDULING"
             ELSE IF application.availability_requested_at # None
                  THEN "WAITING_FOR_AVAILABILITY"
                  ELSE "PENDING_AVAILABILITY_REQUEST"
        /\ \A m \in OptTimes, sub \in OptTimes, gr \in OptGradings :
             get_stage_status([application EXCEPT !.moved_to_stage_at = m,
                                                  !.take_home_submitted_at = sub,
                                                  !.take_home_grading = gr])
               = result.value

C2_Witness ==
    /\ StageStatusReturned
    /\ application.interviews = <<>>
    /\ application.availability_received_at # None
    /\ application.availability_requested_at # None
    /\ result.value = "PENDING_SCHEDULING"

\* C3: once interviews exist the availability fields are not consulted: the
\* status is the same for every value of availability_requested_at and
\* availability_received_at, and it is none of the three availability statuses.
AvailabilityStatuses ==
    {"PENDING_AVAILABILITY_REQUEST", "WAITING_FOR_AVAILABILITY", "PENDING_SCHEDULING"}

C3_InterviewsDominate ==
    (called = "get_stage_status" /\ application.interviews # <<>>) =>
        /\ result.ok
        /\ result.value \notin AvailabilityStatuses
        /\ \A req \in OptTimes, recv \in OptTimes :
             get_stage_status([application EXCEPT !.availability_requested_at = req,
                                                  !.availability_received_at = recv])
               = result.value

C3_Witness ==
    /\ StageStatusReturned
    /\ Len(application.interviews) >= 2
    /\ application.availability_received_at # None
    /\ application.availability_requested_at # None
    /\ "COMPLETE" \notin Statuses(application)
    /\ result.value \in {"PENDING_SCORECARD", "INTERVIEW_SCHEDULED"}

\* C7: get_take_home_status always returns one of three outcomes:
\* PENDING_DECISION iff a grading is present, PENDING_GRADING iff no grading
\* and a submission time is present, PENDING_SUBMISSION iff both are absent.
C7_TakeHomeStatusTotal ==
    called = "get_take_home_status" =>
        /\ result.ok
        /\ result.value \in TakeHomeStatus
        /\ (result.value = "PENDING_DECISION" <=> application.take_home_grading # None)
        /\ (result.value = "PENDING_GRADING"
              <=> (application.take_home_grading = None
                   /\ application.take_home_submitted_at # None))
        /\ (result.value = "PENDING_SUBMISSION"
              <=> (application.take_home_grading = None
                   /\ application.take_home_submitted_at = None))

C7_Witness ==
    /\ called = "get_take_home_status"
    /\ application.take_home_grading # None
    /\ application.take_home_submitted_at # None
    /\ result.value = "PENDING_DECISION"

(* -------------------- specification: stage classification -------------- *)
TemplateInterviewLists ==
    UNION {{[i \in 1..n |-> Interview(i, <<"Interview">>, fl[i])] :
              fl \in [1..n -> BOOLEAN]} : n \in 0..MaxTemplateInterviews}

NotClassified == [is_schedulable |-> None, is_take_home |-> None]

StageInit ==
    /\ \E name \in StageNames, ivs \in TemplateInterviewLists :
         stage = JobStage("stage1", name, ivs)
    /\ application = NoApplication
    /\ called = "none"
    /\ result = Return(NotClassified)
    /\ ClientIdle
    /\ ReportsIdle

ReadIsSchedulable ==
    /\ result.value.is_schedulable = None
    /\ called' = "is_schedulable"
    /\ result' = Return([result.value EXCEPT !.is_schedulable = Some(is_schedulable(stage))])
    /\ UNCHANGED <<application, stage, client, reports>>

ReadIsTakeHome ==
    /\ result.value.is_take_home = None
    /\ called' = "is_take_home"
    /\ result' = Return([result.value EXCEPT !.is_take_home = Some(is_take_home(stage))])
    /\ UNCHANGED <<application, stage, client, reports>>

StageNext == ReadIsSchedulable \/ ReadIsTakeHome

SpecStage == StageInit /\ [][StageNext]_vars

\* C10: no stage is both schedulable and take-home; is_schedulable is true iff
\* some template interview is schedulable; is_take_home is true iff the stage is
\* not schedulable and its name contains "Take Home".
C10_StageKindsExclusive ==
    LET someSchedulable == \E i \in DOMAIN stage.interviews : stage.interviews[i].schedulable
        v == result.value
    IN /\ v.is_schedulable # None => v.is_schedulable = Some(someSchedulable)
       /\ v.is_take_home # None =>
            v.is_take_home = Some(~someSchedulable /\ Contains(stage.name, TakeHome))
       /\ ~(v.is_schedulable = Some(TRUE) /\ v.is_take_home = Some(TRUE))

C10_Witness ==
    /\ result.value.is_schedulable = Some(TRUE)
    /\ result.value.is_take_home = Some(FALSE)
    /\ Contains(stage.name, TakeHome)

(* --------------------- specification: blocker derivation --------------- *)
BlockerInterviews ==
    {ScheduledInterview("si", TechnicalPhoneScreen, c, d, st, <<>>, <<>>) :
        c \in OptTimes, d \in OptTimes, st \in InterviewStatus}

\* Either no interview is scheduled yet and the stage-entry and availability
\* times are arbitrary, or interviews exist (after availability was received).
BlockerInit ==
    /\ \/ \E m \in OptTimes, req \in OptTimes, recv \in OptTimes :
            application = Application("app1", "123", PhoneScreenStage, m, Some("Test Candidate"),
                                      "candidate1", req, recv, None, None, <<>>)
       \/ \E n \in 1..MaxInterviews : \E ivs \in [1..n -> BlockerInterviews] :
            application = Application("app1", "123", PhoneScreenStage, Some(1),
                                      Some("Test Candidate"), "candidate1", Some(1), Some(1),
                                      None, None, [i \in 1..n |-> [ivs[i] EXCEPT !.id = i]])
    /\ stage = NoStage
    /\ called = "none"
    /\ result = NotCalled
    /\ ClientIdle
    /\ ReportsIdle

CallGetApplicationBlocker ==
    /\ called = "none"
    /\ called' = "Application.get_application_blocker"
    /\ result' = get_application_blocker(application)
    /\ UNCHANGED <<application, stage, client, reports>>

CallReporterGetApplicationBlocker ==
    /\ called = "none"
    /\ called' = "Reporter.get_application_blocker"
    /\ result' = Reporter_get_application_blocker(application)
    /\ UNCHANGED <<application, stage, client, reports>>

CallInterviewTimesGetValues ==
    /\ called = "none"
    /\ called' = "InterviewTimes.get_values"
    /\ result' = InterviewTimes_get_values(application)
    /\ UNCHANGED <<application, stage, client, reports>>

CallReportJobPipeline ==
    /\ called = "none"
    /\ called' = "report_job_pipeline"
    /\ result' = report_job_pipeline_interview_times(application)
    /\ UNCHANGED <<application, stage, client, reports>>

BlockerNext ==
    \/ CallGetApplicationBlocker
    \/ CallReporterGetApplicationBlocker
    \/ CallInterviewTimesGetValues
    \/ CallReportJobPipeline

SpecBlocker == BlockerInit /\ [][BlockerNext]_vars

(* ----------------------- claims on blocker derivation ------------------ *)
BlockerCalled ==
    called \in {"Application.get_application_blocker", "Reporter.get_application_blocker"}

\* The interviews with the earliest created_at, null created_at left out (all
\* of them when no interview has a created_at).
EarliestInterviews(app) ==
    LET dated == {i \in DOMAIN app.interviews : app.interviews[i].created_at # None} IN
    IF dated = {} THEN DOMAIN app.interviews
    ELSE {i \in dated : \A j \in dated :
            app.interviews[i].created_at[1] <= app.interviews[j].created_at[1]}

ExpectedBlocker(status, name, time) ==
    IF time = None THEN None ELSE Some(ApplicationBlocker(status, Some(name), time))

\* C4: get_application_blocker maps the stage status to one timestamp by the
\* table of the specification (moved_to_stage_at, availability_requested_at,
\* availability_received_at, the date of the interview with the earliest
\* created_at, or no blocker for INTERVIEW_SCHEDULED), and a returned blocker
\* carries the stage status of the application.
C4_BlockerTable ==
    BlockerCalled =>
      LET app == application
          status ==
            IF app.interviews # <<>>
            THEN IF \A i \in DOMAIN app.interviews : app.interviews[i].status = "COMPLETE"
                 THEN "PENDING_DECISION"
                 ELSE IF \E i \in DOMAIN app.interviews :
                             app.interviews[i].status = "AWAITING_FEEDBACK"
                      THEN "PENDING_SCORECARD" ELSE "INTERVIEW_SCHEDULED"
            ELSE IF app.availability_received_at # None THEN "PENDING_SCHEDULING"
                 ELSE IF app.availability_requested_at # None
                      THEN "WAITING_FOR_AVAILABILITY" ELSE "PENDING_AVAILABILITY_REQUEST"
      IN /\ result.ok
         /\ CASE status = "PENDING_AVAILABILITY_REQUEST" ->
                   result.value = ExpectedBlocker(status, "moved_to_stage_at", app.moved_to_stage_at)
              [] status = "WAITING_FOR_AVAILABILITY" ->
                   result.value = ExpectedBlocker(status, "availability_requested_at",
                                                  app.availability_requested_at)
              [] status = "PENDING_SCHEDULING" ->
                   result.value = ExpectedBlocker(status, "availability_received_at",
                                                  app.availability_received_at)
              [] status \in {"PENDING_SCORECARD", "PENDING_DECISION"} ->
                   \E i \in EarliestInterviews(app) :
                      result.value = ExpectedBlocker(status, "interview_date", app.interviews[i].date)
              [] OTHER -> result.value = None

\* C5: for an application in PENDING_SCORECARD or PENDING_DECISION whose
\* interviews mix null and set created_at, the earliest-interview selection of
\* the blocker and of the report's interview timing columns raises no error and
\* selects the interview with the minimum non-null created_at.
MixedCreatedAt(app) ==
    /\ \E i \in DOMAIN app.interviews : app.interviews[i].created_at = None
    /\ \E i \in DOMAIN app.interviews : app.interviews[i].created_at # None

C5_EarliestSkipsNullCreatedAt ==
    LET app == application
        status == get_stage_status(app)
    IN (called # "none" /\ MixedCreatedAt(app)
          /\ status \in {"PENDING_SCORECARD", "PENDING_DECISION"}) =>
        /\ result.ok
        /\ \E i \in EarliestInterviews(app) :
             IF BlockerCalled
             THEN result.value = ExpectedBlocker(status, "interview_date", app.interviews[i].date)
             ELSE /\ result.value[3] = Strftime(app.interviews[i].created_at)
                  /\ result.value[4] = Strftime(app.interviews[i].date)

\* C6: get_application_blocker returns no partially filled record: when the
\* timestamp selected for the status is absent the result is "no blocker" and
\* no error is raised, and every returned blocker has a relevant_time and a
\* relevant_time_name.
SelectedTimestampAbsent(app) ==
    LET status == get_stage_status(app) IN
    CASE status = "PENDING_AVAILABILITY_REQUEST" -> app.moved_to_stage_at = None
      [] status = "WAITING_FOR_AVAILABILITY" -> app.availability_requested_at = None
      [] status = "PENDING_SCHEDULING" -> app.availability_received_at = None
      [] status \in {"PENDING_SCORECARD", "PENDING_DECISION"} ->
           \A i \in EarliestInterviews(app) : app.interviews[i].date = None
      [] OTHER -> TRUE

C6_NoPartialBlocker ==
    BlockerCalled =>
        /\ SelectedTimestampAbsent(application) => (result.ok /\ result.value = None)
        /\ (result.ok /\ result.value # None) =>
             /\ result.value[1].relevant_time # None
             /\ result.value[1].relevant_time_name # None

(* ---------------------- specification: get_application ----------------- *)
ManagedJobs == [k \in {Str(1)} |-> EngineerJob]

LookupInit ==
    /\ \E fault \in Faults, stage_id \in {1, 2, 3, 9} :
         \E fetch \in {RequestFailed, Response(404, <<>>)} \cup
                      {Response(200, AppData(156, FALSE, stage_id, jobs)) :
                         jobs \in {<<>>, <<[id |-> 1]>>, <<[id |-> 5]>>}} :
            greenhouse = [application |-> fetch] @@ World(stage_id, fault)
    /\ by_id \in {NoJobs, ManagedJobs}
    /\ ReportsIdle
    /\ pc = "start"
    /\ pos = 0
    /\ applications = <<>>
    /\ warnings = <<>>
    /\ requests = <<>>
    /\ application = NoApplication
    /\ stage = NoStage
    /\ called = "none"
    /\ result = NotCalled

GetApplication ==
    /\ pc = "start"
    /\ LET r == get_application(by_id, greenhouse) IN
         /\ result' = IF r.ok THEN Return(r.value) ELSE Raise(r.error)
         /\ requests' = requests \o r.requests
    /\ pc' = "done"
    /\ called' = "get_application"
    /\ UNCHANGED <<application, stage, greenhouse, by_id, pos, applications, warnings, reports>>

LookupNext == GetApplication

SpecLookup == LookupInit /\ [][LookupNext]_vars

\* C9: get_application raises a descriptive error and issues no hydration
\* request when the application fetch fails, the record names no job, the job
\* is not in the job manager or the current-stage id is no stage of the job;
\* otherwise the outcome of hydration, an error included, is the outcome of
\* get_application.
C9_LookupFailsAsAWhole ==
    called = "get_application" =>
      LET fetch == greenhouse.application
          fetched == ~fetch.raised /\ fetch.status_code = 200
          namesJob == fetched /\ fetch.json.jobs # <<>>
          jobFound == namesJob /\ Str(fetch.json.jobs[1].id) \in DOMAIN by_id
          job == by_id[Str(fetch.json.jobs[1].id)]
          stages == {i \in DOMAIN job.stages :
                       job.stages[i].id = Str(fetch.json.current_stage.id)}
          stageFound == jobFound /\ stages # {}
      IN /\ ~stageFound =>
              /\ ~result.ok
              /\ requests = <<"application">>
              /\ result.error =
                   IF ~fetched
                   THEN IF fetch.raised THEN RequestError
                        ELSE "Exception: Failed to fetch application"
                   ELSE IF ~namesJob THEN "ValueError: No job found in application"
                   ELSE IF ~jobFound THEN "ValueError: Job not found in job manager"
                   ELSE "ValueError: Current stage not found in job"
         /\ stageFound =>
              LET h == hydrate_application(fetch.json, job, job.stages[MinOf(stages)],
                                           greenhouse)
              IN /\ result.ok <=> h.ok
                 /\ result = IF h.ok THEN Return(h.value) ELSE Raise(h.error)
                 /\ result.ok => result.value # None
                 /\ requests = <<"application">> \o h.requests

C9_Witness ==
    /\ called = "get_application"
    /\ ~greenhouse.application.raised
    /\ greenhouse.application.status_code = 200
    /\ greenhouse.application.json.jobs = <<[id |-> 1]>>
    /\ by_id = ManagedJobs
    /\ greenhouse.application.json.current_stage.id = 9
    /\ result = Raise("ValueError: Current stage not found in job")
    /\ requests = <<"application">>

(* ----------------- specification: get_applications_for_job ------------- *)
\* The raw records of one batch: a prospect, a record at an unknown stage, and
\* records at the schedulable and at the take-home stage, sound or with a
\* fault of each kind their hydration can meet (a failed request, a non-200
\* activity feed, an unparsable timestamp, an unknown interview status).
BatchRecordKinds ==
    {[prospect |-> TRUE, stage_id |-> 1, fault |-> "none"],
     [prospect |-> FALSE, stage_id |-> 9, fault |-> "none"]}
    \cup {[prospect |-> FALSE, stage_id |-> 1, fault |-> f] :
            f \in {"none", "feed_raised", "feed_non200", "bad_timestamp",
                   "unknown_status"}}
    \cup {[prospect |-> FALSE, stage_id |-> 2, fault |-> f] :
            f \in {"none", "scorecards_raised"}}

BatchInit ==
    /\ \/ \E n \in 0..MaxRecords : \E kinds \in [1..n -> BatchRecordKinds] :
            greenhouse =
              [applications |->
                 Response(200, [i \in 1..n |->
                    AppData(100 + i, kinds[i].prospect, kinds[i].stage_id, <<[id |-> 1]>>)]),
               worlds |-> [i \in 1..n |-> World(kinds[i].stage_id, kinds[i].fault)]]
       \/ \E fetch \in {RequestFailed, Response(500, <<>>)} :
            greenhouse = [applications |-> fetch, worlds |-> <<>>]
    /\ by_id = ManagedJobs
    /\ ReportsIdle
    /\ pc = "start"
    /\ pos = 0
    /\ applications = <<>>
    /\ warnings = <<>>
    /\ requests = <<>>
    /\ application = NoApplication
    /\ stage = NoStage
    /\ called = "get_applications_for_job"
    /\ result = NotCalled

\* The head of get_applications_for_job(job): the applications request.
FetchApplications ==
    /\ pc = "start"
    /\ requests' = Append(requests, "applications")
    /\ IF greenhouse.applications.raised
       THEN /\ pc' = "raised"
            /\ result' = Raise(RequestError)
            /\ UNCHANGED <<pos, applications>>
       ELSE IF greenhouse.applications.status_code # 200
       THEN /\ pc' = "raised"
            /\ result' = Raise("Exception: Failed to fetch applications")
            /\ UNCHANGED <<pos, applications>>
       ELSE /\ pc' = "loop"
            /\ pos' = 1
            /\ applications' = <<>>
            /\ UNCHANGED result
    /\ UNCHANGED <<application, stage, called, greenhouse, by_id, warnings, reports>>

\* `continue`
Continue ==
    /\ pos' = pos + 1
    /\ UNCHANGED <<pc, result>>

\* try: application = self._hydrate_application(...); applications.append(application)
AppendHydrated(h) ==
    /\ applications' = Append(applications, h.value)
    /\ UNCHANGED warnings
    /\ Continue

\* a hydration failure that is not caught
PropagateHydrationFailure(h, app_data) ==
    /\ pc' = "raised"
    /\ result' = Raise(h.error)
    /\ UNCHANGED <<pos, applications, warnings>>

\* except Exception as e: print(f"Warning: ..."); continue
CatchHydrationFailure(h, app_data) ==
    /\ warnings' = Append(warnings, app_data.id)
    /\ UNCHANGED applications
    /\ Continue

\* One pass of `for app_data in applications_data`.
ProcessApplicationData ==
    /\ pc = "loop"
    /\ pos <= Len(greenhouse.applications.json)
    /\ LET app_data == greenhouse.applications.json[pos]
           current_stage == FindStage(EngineerJob, Str(app_data.current_stage.id))
       IN IF app_data.prospect \/ current_stage = None
          THEN Continue /\ UNCHANGED <<applications, warnings, requests>>
          ELSE LET h == hydrate_application(app_data, EngineerJob, current_stage[1],
                                            greenhouse.worlds[pos])
               IN /\ requests' = requests \o h.requests
                  /\ IF h.ok THEN AppendHydrated(h) ELSE CatchHydrationFailure(h, app_data)
    /\ UNCHANGED <<application, stage, called, greenhouse, by_id, reports>>

\* return applications
ReturnApplications ==
    /\ pc = "loop"
    /\ pos > Len(greenhouse.applications.json)
    /\ pc' = "returned"
    /\ result' = Return(applications)
    /\ UNCHANGED <<application, stage, called, greenhouse, by_id, pos, applications, warnings,
                   requests, reports>>

BatchNext == FetchApplications \/ ProcessApplicationData \/ ReturnApplications

SpecBatch == BatchInit /\ [][BatchNext]_vars

\* Whether and how raw record i is returned, from record i alone.
RecordStage(i) ==
    LET d == greenhouse.applications.json[i] IN
    {k \in DOMAIN EngineerJob.stages : EngineerJob.stages[k].id = Str(d.current_stage.id)}

RecordHydration(i) ==
    hydrate_application(greenhouse.applications.json[i], EngineerJob,
                        EngineerJob.stages[MinOf(RecordStage(i))], greenhouse.worlds[i])

RecordReturned(i) ==
    /\ ~greenhouse.applications.json[i].prospect
    /\ RecordStage(i) # {}
    /\ RecordHydration(i).ok

RECURSIVE ExpectedApplications(_)
ExpectedApplications(n) ==
    IF n = 0 THEN <<>>
    ELSE IF RecordReturned(n)
         THEN Append(ExpectedApplications(n - 1), RecordHydration(n).value)
         ELSE ExpectedApplications(n - 1)

JobStageNames ==
    {TakeHomeTest, <<"Take", "Home", "Test", "Advanced">>, <<"Take", "Home">>,
     <<"Technical", "Interview">>}
JobStageInterviews ==
    {<<>>,
     <<Interview("int1", TakeHomeTest, FALSE)>>,
     <<Interview("int3", DevAITechnicalScreen, TRUE)>>,
     <<Interview("int4", <<"Regular", "Technical", "Screen">>, TRUE)>>}
JobStages == {JobStage("stage", name, ivs) : name \in JobStageNames, ivs \in JobStageInterviews}
Roles == {Role(f, sen) : f \in RoleFunction, sen \in Seniority}

JobInit ==
    /\ \E role \in Roles, stages \in SeqsUpTo(JobStages, MaxStages) :
         current_job = Job("job1", <<"Software", "Engineer">>, role, stages)
    /\ cache = NoCache
    /\ field_groups = <<>>
    /\ clock_reads = <<>>
    /\ application = NoApplication
    /\ stage = NoStage
    /\ called = "none"
    /\ result = NotCalled
    /\ ClientIdle

CallIsAiEnabled ==
    /\ called' = "is_ai_enabled"
    /\ result' = Return(is_ai_enabled(current_job))
    /\ UNCHANGED <<application, stage, client, reports>>

CallIsAiEligible ==
    /\ called' = "is_ai_eligible"
    /\ result' = Return(is_ai_eligible(current_job))
    /\ UNCHANGED <<application, stage, client, reports>>

CallHasTakeHomeStage ==
    /\ called' = "has_take_home_stage"
    /\ result' = Return(has_take_home_stage(current_job))
    /\ UNCHANGED <<application, stage, client, reports>>

JobNext == CallIsAiEnabled \/ CallIsAiEligible \/ CallHasTakeHomeStage

SpecJob == JobInit /\ [][JobNext]_vars

\* C11: is_ai_enabled is false for a non-Engineer role; for SWE1 and SWE2 it is
\* true iff some stage name contains "Take Home Test", schedulable or not; for
\* Senior it is true iff some template interview name contains "DevAI
\* Technical Screen"; for Staff and Unknown it is false.  An enabled job is
\* an eligible job.
C11_AiEnabledReference ==
    called = "is_ai_enabled" =>
      LET seniority == current_job.role.seniority
          stageNames == {current_job.stages[i].name : i \in DOMAIN current_job.stages}
          interviewNames ==
              UNION {{current_job.stages[i].interviews[k].name :
                        k \in DOMAIN current_job.stages[i].interviews} :
                     i \in DOMAIN current_job.stages}
          reference ==
              CASE current_job.role.function # "Engineer" -> FALSE
                [] OTHER ->
                     CASE seniority \in {"SWE1", "SWE2"} ->
                            \E n \in stageNames : Contains(n, TakeHomeTest)
                       [] seniority = "Senior" ->
                            \E n \in interviewNames : Contains(n, DevAITechnicalScreen)
                       [] OTHER -> FALSE
      IN /\ result = Return(reference)
         /\ result.value => is_ai_eligible(current_job)

\* An SWE2 job is enabled by a "Take Home Test" stage that is schedulable and
\* so is no take-home stage.
C11_Witness ==
    /\ called = "is_ai_enabled"
    /\ current_job.role = Role("Engineer", "SWE2")
    /\ \E i \in DOMAIN current_job.stages :
          Contains(current_job.stages[i].name, TakeHomeTest)
    /\ ~has_take_home_stage(current_job)
    /\ result = Return(TRUE)

(* -------------------- specification: _hydrate_application -------------- *)
\* The entries of seq that mask keeps, in order.
RECURSIVE MaskedFrom(_, _, _)
MaskedFrom(seq, mask, i) ==
    IF i > Len(seq) THEN <<>>
    ELSE IF mask[i] THEN <<seq[i]>> \o MaskedFrom(seq, mask, i + 1)
    ELSE MaskedFrom(seq, mask, i + 1)

\* Scorecard records: for the first interview of the evaluation stage, two
\* gradings of the take-home interview by different graders at different
\* times, one for an interview of no stage, one with an unparsable time.
ScorecardRecords ==
    {[id |-> 70, interview_step_id |-> 11, submitted_at |-> Iso(2), submitted_by |-> 7,
      overall_recommendation |-> "yes"],
     [id |-> 71, interview_step_id |-> 21, submitted_at |-> Iso(1), submitted_by |-> 8,
      overall_recommendation |-> "yes"],
     [id |-> 72, interview_step_id |-> 21, submitted_at |-> Iso(2), submitted_by |-> 9,
      overall_recommendation |-> "no"],
     [id |-> 73, interview_step_id |-> 99, submitted_at |-> Iso(1), submitted_by |-> 7,
      overall_recommendation |-> "yes"],
     [id |-> 74, interview_step_id |-> 21, submitted_at |-> Garbage, submitted_by |-> 8,
      overall_recommendation |-> "yes"]}

ScheduledInterviewResponses ==
    {RequestFailed, Response(404, <<>>), Response(200, <<>>),
     Response(200, ScheduledInterviewsJson("none")),
     Response(200, ScheduledInterviewsJson("unknown_status"))}

HydrateInit ==
    /\ stage \in {EvaluationStage, TakeHomeStage, OfferStage, LiveTakeHomeStage}
    /\ \E feed \in {RequestFailed, Response(500, <<>>)} \cup
                    {Response(200, [activities |-> MaskedFrom(FeedJson(stage.name, f).activities, mask, 1),
                                    notes |-> IF note THEN FeedJson(stage.name, f).notes ELSE <<>>]) :
                       f \in {"none", "bad_timestamp"}, mask \in [1..4 -> BOOLEAN],
                       note \in BOOLEAN},
          interviews \in ScheduledInterviewResponses,
          cards \in {RequestFailed, Response(404, <<>>)} \cup
                    {Response(200, c) : c \in SeqsUpTo(ScorecardRecords, MaxScorecards)} :
         greenhouse = [application |-> Response(200, AppData(156, FALSE, 0, <<[id |-> 1]>>)),
                       activity_feed |-> feed, scheduled_interviews |-> interviews,
                       scorecards |-> cards]
    /\ by_id = ManagedJobs
    /\ pc = "start"
    /\ pos = 0
    /\ applications = <<>>
    /\ warnings = <<>>
    /\ requests = <<>>
    /\ application = NoApplication
    /\ called = "none"
    /\ result = NotCalled
    /\ ReportsIdle

\* self._hydrate_application(app_data, job, current_stage)
HydrateApplication ==
    /\ pc = "start"
    /\ LET h == hydrate_application(greenhouse.application.json, EngineerJob, stage, greenhouse)
       IN /\ result' = IF h.ok THEN Return(h.value) ELSE Raise(h.error)
          /\ requests' = requests \o h.requests
    /\ pc' = "done"
    /\ called' = "_hydrate_application"
    /\ UNCHANGED <<application, stage, greenhouse, by_id, pos, applications, warnings, reports>>

HydrateNext == HydrateApplication

SpecHydrate == HydrateInit /\ [][HydrateNext]_vars

Hydrated == called = "_hydrate_application" /\ result.ok

FeedHasSubmission ==
    \E i \in DOMAIN greenhouse.activity_feed.json.activities :
        greenhouse.activity_feed.json.activities[i].body.phrase = "submitted a take home test"

MatchingScorecards ==
    IF greenhouse.scorecards.raised \/ greenhouse.scorecards.status_code # 200 THEN {}
    ELSE {i \in DOMAIN greenhouse.scorecards.json :
            \E k \in DOMAIN stage.interviews :
                stage.interviews[k].id = Str(greenhouse.scorecards.json[i].interview_step_id)}

\* C12 (as stated): a hydrated application never has both take_home_grading
\* and take_home_submitted_at present.
C12_AtMostOneTakeHomeField ==
    Hydrated => ~(result.value.take_home_grading # None
                    /\ result.value.take_home_submitted_at # None)

\* C12 (amended): at a take-home stage the two fields are hydrated
\* independently: take_home_submitted_at is present iff the activity feed
\* holds a submission, take_home_grading is present iff some scorecard matches
\* an interview of the stage, so both are present for a graded submission;
\* the take-home status is decided by the first of: grading present,
\* submission present, neither.
C12_TakeHomeFieldsIndependent ==
    (Hydrated /\ is_take_home(stage)) =>
        /\ result.value.take_home_submitted_at # None <=> FeedHasSubmission
        /\ result.value.take_home_grading # None <=> MatchingScorecards # {}
        /\ get_take_home_status(result.value) =
             IF MatchingScorecards # {} THEN "PENDING_DECISION"
             ELSE IF FeedHasSubmission THEN "PENDING_GRADING"
             ELSE "PENDING_SUBMISSION"

C12_Witness ==
    /\ Hydrated
    /\ is_take_home(stage)
    /\ result.value.take_home_grading # None
    /\ result.value.take_home_submitted_at # None

\* C13: a hydrated application has interviews and availability times only at
\* a schedulable stage and take-home submission and grading only at a
\* take-home stage; at a schedulable stage both take-home fields are None.
C13_FieldsConfinedToStageType ==
    Hydrated =>
        LET app == result.value IN
        /\ app.interviews # <<>> => is_schedulable(stage)
        /\ (app.availability_requested_at # None \/ app.availability_received_at # None)
              => is_schedulable(stage)
        /\ (app.take_home_submitted_at # None \/ app.take_home_grading # None)
              => is_take_home(stage)
        /\ is_schedulable(stage)
              => app.take_home_submitted_at = None /\ app.take_home_grading = None

\* A schedulable stage whose feed also holds a take-home submission.
C13_Witness ==
    /\ Hydrated
    /\ stage = EvaluationStage
    /\ FeedHasSubmission
    /\ result.value.interviews # <<>>
    /\ result.value.availability_requested_at # None
    /\ result.value.take_home_submitted_at = None

\* C18 (as stated): when several scorecards match the interviews of the
\* take-home stage, the grading of the hydrated application is built from the
\* first matching scorecard in the order of the response.
C18_FirstMatchingScorecardWins ==
    (Hydrated /\ is_take_home(stage) /\ MatchingScorecards # {}) =>
        LET first == greenhouse.scorecards.json[MinOf(MatchingScorecards)]
        IN result.value.take_home_grading =
              Some(TakeHomeGrading(Str(first.id), first.submitted_at[2],
                                   User(Str(first.submitted_by))))

\* The requests of this hydration that were answered with a status other
\* than 200.
NonSuccessResponses ==
    {i \in DOMAIN requests :
        /\ ~greenhouse[requests[i]].raised
        /\ greenhouse[requests[i]].status_code # 200}

\* C19 (as stated): at a relevant stage a non-200 answer to any request of
\* the hydration (activity feed, scheduled interviews, scorecards) makes
\* _hydrate_application raise; no Application is returned.
C19_NonSuccessIsFatal ==
    (called = "_hydrate_application"
       /\ (is_schedulable(stage) \/ is_take_home(stage))
       /\ NonSuccessResponses # {}) => ~result.ok

\* C20: at a stage that is neither schedulable nor take-home,
\* _hydrate_application sends no request and returns the application with its
\* id, candidate id, job and stage, every optional field unset and no
\* interviews.
C20_MinimalApplication ==
    (called = "_hydrate_application" /\ ~is_schedulable(stage) /\ ~is_take_home(stage)) =>
        /\ requests = <<>>
        /\ result.ok
        /\ result.value.id = Str(greenhouse.application.json.id)
        /\ result.value.candidate_id = Str(greenhouse.application.json.candidate_id)
        /\ result.value.job = EngineerJob
        /\ result.value.current_stage = stage
        /\ result.value.moved_to_stage_at = None
        /\ result.value.candidate_name = None
        /\ result.value.availability_requested_at = None
        /\ result.value.availability_received_at = None
        /\ result.value.take_home_submitted_at = None
        /\ result.value.take_home_grading = None
        /\ result.value.interviews = <<>>

\* The offer stage is hydrated although none of the three requests would
\* have been answered.
C20_Witness ==
    /\ Hydrated
    /\ stage = OfferStage
    /\ requests = <<>>
    /\ greenhouse.activity_feed.raised
    /\ greenhouse.scheduled_interviews.raised
    /\ greenhouse.scorecards.raised

(* ------------- specification: hydration of feeds and interviews --------- *)
\* The stage that the entries about another stage name.
OtherStageName(s) == IF s = EvaluationStage THEN TakeHomeStage.name ELSE EvaluationStage.name

\* Stage-entry and availability activities of the current stage at two
\* instants, of another stage, and one with an unparsable created_at.
MovedPool(s) ==
    {Activity(Body("was moved into", s.name, "John Doe"), Iso(1)),
     Activity(Body("was moved into", s.name, "Jane Roe"), Iso(2)),
     Activity(Body("was moved into", OtherStageName(s), "John Doe"), Iso(2))}
AvailabilityPool(s) ==
    {Activity(Body("manually updated availability from Not requested to Requested for",
                   s.name, "Jane Smith"), c) : c \in {Iso(1), Iso(2), Garbage}}
    \cup {Activity(Body("manually updated availability from Not requested to Requested for",
                        OtherStageName(s), "Jane Smith"), Iso(2))}
    \cup {Activity(Body("submitted their availability for", s.name, "John Doe"), c) :
            c \in {Iso(1), Iso(2)}}
ConfirmationPool(s) ==
    {Activity(Body("availability from Received to Confirmation sent for", s.name, "Jane Smith"), c) :
        c \in {Iso(1), Iso(2)}}
    \cup {Activity(Body("availability from Received to Confirmation sent for",
                        OtherStageName(s), "Jane Smith"), Iso(1))}
NotePool(s) ==
    {Activity(Body("scheduled interviews for", s.name, "Jane Smith"), c) :
        c \in {Iso(1), Iso(2), Garbage}}
    \cup {Activity(Body("scheduled interviews for", OtherStageName(s), "Jane Smith"), Iso(1))}

\* Scheduled-interview records: for either interview of the evaluation stage
\* or for the interview of the take-home stage, complete (in either spelling)
\* or scheduled, with no interviewers, with one resolvable scorecard, or with
\* an unresolvable and two resolvable scorecards.
InterviewerLists ==
    <<<<>>,
      <<[id |-> 7, scorecard_id |-> Some(70)], [id |-> 8, scorecard_id |-> None]>>,
      <<[id |-> 9, scorecard_id |-> Some(75)], [id |-> 7, scorecard_id |-> Some(72)],
        [id |-> 8, scorecard_id |-> Some(70)]>>>>
ScheduledRecord(id, interview_id, status, interviewers) ==
    [id |-> id, interview_id |-> interview_id, status |-> status, start |-> Iso(2),
     interviewers |-> interviewers]
ScheduledRecordPool ==
    {ScheduledRecord(<<interview_id, n>>, interview_id, status, InterviewerLists[n]) :
        interview_id \in {11, 12, 21}, status \in {"complete", "Complete", "scheduled"},
        n \in DOMAIN InterviewerLists}
FeedScorecards ==
    <<[id |-> 70, interview_step_id |-> 11, submitted_at |-> Iso(2), submitted_by |-> 7,
       overall_recommendation |-> "yes"],
      [id |-> 72, interview_step_id |-> 12, submitted_at |-> Iso(2), submitted_by |-> 9,
       overall_recommendation |-> "strong_yes"]>>

\* Three families of responses: feeds with several stage-entry and
\* availability activities; feeds with several scheduling notes and
\* confirmations; several scheduled-interview records.
FeedInit ==
    /\ \/ /\ stage \in {EvaluationStage, TakeHomeStage}
          /\ \E activities \in SeqsUpTo(MovedPool(stage) \cup AvailabilityPool(stage), MaxActivities),
                records \in {Response(200, <<>>), Response(404, <<>>),
                             Response(200, <<ScheduledRecord(31, 11, "scheduled", <<>>)>>)} :
               greenhouse = [application |-> Response(200, AppData(156, FALSE, 0, <<[id |-> 1]>>)),
                             activity_feed |-> Response(200, [activities |-> activities, notes |-> <<>>]),
                             scheduled_interviews |-> records,
                             scorecards |-> Response(200, <<>>)]
       \/ /\ stage = EvaluationStage
          /\ \E activities \in SeqsUpTo(ConfirmationPool(stage), MaxActivities),
                notes \in SeqsUpTo(NotePool(stage), MaxNotes),
                records \in {<<ScheduledRecord(31, 11, "scheduled", <<>>)>>,
                             <<ScheduledRecord(31, 11, "scheduled", <<>>),
                               ScheduledRecord(32, 12, "complete", <<>>)>>,
                             <<ScheduledRecord(33, 21, "scheduled", <<>>)>>} :
               greenhouse = [application |-> Response(200, AppData(156, FALSE, 0, <<[id |-> 1]>>)),
                             activity_feed |-> Response(200, [activities |-> activities, notes |-> notes]),
                             scheduled_interviews |-> Response(200, records),
                             scorecards |-> Response(200, <<>>)]
       \/ /\ stage = EvaluationStage
          /\ \E feed \in {FeedJson(stage.name, "none"), [activities |-> <<>>, notes |-> <<>>]},
                records \in SeqsUpTo(ScheduledRecordPool, MaxScheduled),
                cards \in {Response(200, FeedScorecards), Response(404, <<>>)} :
               greenhouse = [application |-> Response(200, AppData(156, FALSE, 0, <<[id |-> 1]>>)),
                             activity_feed |-> Response(200, feed),
                             scheduled_interviews |-> Response(200, records),
                             scorecards |-> cards]
    /\ by_id = ManagedJobs
    /\ pc = "start"
    /\ pos = 0
    /\ applications = <<>>
    /\ warnings = <<>>
    /\ requests = <<>>
    /\ application = NoApplication
    /\ called = "none"
    /\ result = NotCalled
    /\ ReportsIdle

SpecFeed == FeedInit /\ [][HydrateNext]_vars

\* The scheduled-interview records that were read, and those among them whose
\* interview is one of the current stage, in the order of the response.
ScheduledData ==
    IF greenhouse.scheduled_interviews.raised \/ greenhouse.scheduled_interviews.status_code # 200
    THEN <<>> ELSE greenhouse.scheduled_interviews.json
StageInterviewIds == {stage.interviews[k].id : k \in DOMAIN stage.interviews}
CurrentStageRecords ==
    MaskedFrom(ScheduledData,
               [i \in DOMAIN ScheduledData |->
                   Str(ScheduledData[i].interview_id) \in StageInterviewIds], 1)
HydratedAtSchedulable == Hydrated /\ is_schedulable(stage)

\* C22: at a schedulable stage the hydrated interviews are, in the order of
\* the response, the scheduled-interview records whose interview id is the id
\* of a template interview of the current stage, each with that template
\* interview; records of other stages are left out.
C22_InterviewsOfCurrentStage ==
    HydratedAtSchedulable =>
        /\ Len(result.value.interviews) = Len(CurrentStageRecords)
        /\ \A i \in DOMAIN result.value.interviews :
              /\ result.value.interviews[i].id = Str(CurrentStageRecords[i].id)
              /\ \E k \in DOMAIN stage.interviews :
                    /\ result.value.interviews[i].interview = stage.interviews[k]
                    /\ stage.interviews[k].id = Str(CurrentStageRecords[i].interview_id)

\* A record of the take-home interview before a record of the system design
\* interview: only the second is hydrated.
C22_Witness ==
    /\ HydratedAtSchedulable
    /\ Len(ScheduledData) = 2
    /\ ScheduledData[1].interview_id = 21
    /\ ScheduledData[2].interview_id = 12
    /\ Len(result.value.interviews) = 1
    /\ result.value.interviews[1].interview = EvaluationStage.interviews[2]

\* The ids of the scorecards that were read.
ScorecardIds ==
    IF greenhouse.scorecards.raised \/ greenhouse.scorecards.status_code # 200 THEN {}
    ELSE {Str(greenhouse.scorecards.json[k].id) : k \in DOMAIN greenhouse.scorecards.json}
\* The interviewers of a record whose scorecard_id names a scorecard that was read.
WithScorecard(record) ==
    MaskedFrom(record.interviewers,
               [k \in DOMAIN record.interviewers |->
                   /\ record.interviewers[k].scorecard_id # None
                   /\ Str(record.interviewers[k].scorecard_id[1]) \in ScorecardIds], 1)

\* C23: a hydrated interview whose status is "complete" in any case has, in
\* the order of its interviewers, the scorecard of each interviewer whose
\* scorecard_id is among the scorecards of the application; interviewers
\* without such a scorecard add none; an interview of another status has no
\* scorecards.
C23_ScorecardsOnlyWhenComplete ==
    HydratedAtSchedulable =>
        \A i \in DOMAIN result.value.interviews :
           i \in DOMAIN CurrentStageRecords =>
             LET record == CurrentStageRecords[i]
                 scorecards == result.value.interviews[i].scorecards
             IN IF record.status \in {"complete", "Complete"}
                THEN /\ Len(scorecards) = Len(WithScorecard(record))
                     /\ \A k \in DOMAIN scorecards :
                           scorecards[k].id = Str(WithScorecard(record)[k].scorecard_id[1])
                ELSE scorecards = <<>>

\* A "Complete" interview with three interviewers, the first with a scorecard
\* id that is not among the scorecards read: the scorecards of the other two.
C23_Witness ==
    /\ HydratedAtSchedulable
    /\ Len(result.value.interviews) >= 1
    /\ CurrentStageRecords[1].status = "Complete"
    /\ Len(CurrentStageRecords[1].interviewers) = 3
    /\ Len(result.value.interviews[1].scorecards) = 2
    /\ result.value.interviews[1].scorecards[1].id = Str(72)
    /\ result.value.interviews[1].scorecards[2].id = Str(70)

\* The feed that was read, and whether every created_at in it parses.
FeedActivities == greenhouse.activity_feed.json.activities
FeedNotes == greenhouse.activity_feed.json.notes
FeedParses ==
    /\ \A i \in DOMAIN FeedActivities : fromisoformat(FeedActivities[i].created_at).ok
    /\ \A i \in DOMAIN FeedNotes : fromisoformat(FeedNotes[i].created_at).ok
\* The instant an entry's created_at stands for; no instant (-1) for text
\* that does not parse.
ParsedTime(item) ==
    IF fromisoformat(item.created_at).ok THEN Some(fromisoformat(item.created_at).value)
    ELSE Some(0 - 1)
AtRelevantStage == called = "_hydrate_application" /\ (is_schedulable(stage) \/ is_take_home(stage))

SchedulingNotes ==
    {i \in DOMAIN FeedNotes :
        /\ FeedNotes[i].body.phrase = "scheduled interviews for"
        /\ FeedNotes[i].body.stage = stage.name}
Confirmations ==
    {i \in DOMAIN FeedActivities :
        /\ FeedActivities[i].body.phrase = "availability from Received to Confirmation sent for"
        /\ FeedActivities[i].body.stage = stage.name}

\* C24: created_at of a hydrated interview is the time of the first
\* scheduling note of the stage; without such a note, the time of the first
\* confirmation-sent activity of the stage; without either it is unset, and
\* the hydration of a feed whose times parse does not raise.
C24_SchedulingConfirmationTime ==
    /\ HydratedAtSchedulable =>
          \A i \in DOMAIN result.value.interviews :
             result.value.interviews[i].created_at =
                IF SchedulingNotes # {}
                THEN ParsedTime(FeedNotes[MinOf(SchedulingNotes)])
                ELSE IF Confirmations # {}
                THEN ParsedTime(FeedActivities[MinOf(Confirmations)])
                ELSE None
    /\ (AtRelevantStage /\ is_schedulable(stage) /\ FeedParses
          /\ SchedulingNotes = {} /\ Confirmations = {}) => result.ok

\* Two scheduling notes at different times after a note of another stage, and
\* an earlier confirmation activity: the first note of the stage decides.
C24_Witness ==
    /\ HydratedAtSchedulable
    /\ Len(result.value.interviews) >= 1
    /\ Confirmations # {}
    /\ Cardinality(SchedulingNotes) = 2
    /\ FeedNotes[1].created_at # FeedNotes[2].created_at
    /\ FeedActivities[MinOf(Confirmations)].created_at # FeedNotes[1].created_at
    /\ result.value.interviews[1].created_at = ParsedTime(FeedNotes[1])

AvailabilityRequests ==
    {i \in DOMAIN FeedActivities :
        /\ FeedActivities[i].body.phrase =
              "manually updated availability from Not requested to Requested for"
        /\ FeedActivities[i].body.stage = stage.name}
AvailabilitySubmissions ==
    {i \in DOMAIN FeedActivities :
        /\ FeedActivities[i].body.phrase = "submitted their availability for"
        /\ FeedActivities[i].body.stage = stage.name}

\* C25: at a schedulable stage availability_requested_at is the time of the
\* last availability-requested activity of the stage and
\* availability_received_at the time of the last availability-submitted
\* activity of the stage; each is unset iff there is no such activity, with
\* or without scheduled interviews.
C25_AvailabilityLastMatchWins ==
    HydratedAtSchedulable =>
        /\ result.value.availability_requested_at =
              IF AvailabilityRequests = {} THEN None
              ELSE ParsedTime(FeedActivities[MaxOf(AvailabilityRequests)])
        /\ result.value.availability_received_at =
              IF AvailabilitySubmissions = {} THEN None
              ELSE ParsedTime(FeedActivities[MaxOf(AvailabilitySubmissions)])

\* Two availability requests of the stage, the later one first in the feed,
\* and a scheduled interview.
C25_Witness ==
    /\ HydratedAtSchedulable
    /\ AvailabilityRequests = {1, 2}
    /\ FeedActivities[1].created_at = Iso(2)
    /\ FeedActivities[2].created_at = Iso(1)
    /\ result.value.availability_requested_at = Some(1)
    /\ result.value.availability_received_at = None
    /\ result.value.interviews # <<>>

StageEntries ==
    {i \in DOMAIN FeedActivities :
        /\ FeedActivities[i].body.phrase = "was moved into"
        /\ FeedActivities[i].body.stage = stage.name}

\* C26: at a relevant stage moved_to_stage_at is the time of the first
\* activity that says the candidate was moved into the current stage and
\* candidate_name the name that activity starts with; later entries are
\* ignored; without such an activity both are unset and the hydration of a
\* feed whose times parse does not raise.
C26_StageEntryFirstMatchWins ==
    /\ (AtRelevantStage /\ result.ok) =>
          IF StageEntries = {}
          THEN /\ result.value.moved_to_stage_at = None
               /\ result.value.candidate_name = None
          ELSE /\ result.value.moved_to_stage_at =
                     ParsedTime(FeedActivities[MinOf(StageEntries)])
               /\ result.value.candidate_name =
                     Some(FeedActivities[MinOf(StageEntries)].body.who)
    /\ (AtRelevantStage /\ FeedParses /\ StageEntries = {}) => result.ok

\* Two entries into the take-home stage under different names and times.
C26_Witness ==
    /\ AtRelevantStage
    /\ result.ok
    /\ is_take_home(stage)
    /\ StageEntries = {1, 2}
    /\ FeedActivities[1].created_at = Iso(2)
    /\ FeedActivities[2].created_at = Iso(1)
    /\ result.value.moved_to_stage_at = Some(2)
    /\ result.value.candidate_name = Some("Jane Roe")

(* ---------------------- specification: CSV views ----------------------- *)
\* The job of the applications of a view, with or without the recruiter,
\* location and department that Dimensions reads.
CsvJobs ==
    {EngineerJob @@ [recruiters |-> <<"Jane Smith">>, location |-> Some("Remote"),
                     departments |-> <<"Engineering">>],
     EngineerJob @@ [recruiters |-> <<>>, location |-> None, departments |-> <<>>]}

CsvInterviews ==
    {ScheduledInterview("si", EvaluationStage.interviews[1], c, Some(2), st, <<>>, <<>>) :
        c \in {None, Some(1)}, st \in InterviewStatus}

\* Applications of each branch of the field groups: at a take-home stage, at
\* a schedulable stage with no, one or two interviews, and at another stage.
CsvApplications(j) ==
    {Application("app1", j, TakeHomeStage, Some(1), Some("John Doe"), "candidate1",
                 None, None, sub, gr, <<>>) : sub \in {None, Some(1)}, gr \in OptGradings}
    \cup {Application("app1", j, EvaluationStage, Some(1), Some("John Doe"), "candidate1",
                      av[1], av[2], None, None, ivs) :
            av \in {<<None, None>>, <<Some(1), Some(2)>>},
            ivs \in {<<>>} \cup {<<a>> : a \in CsvInterviews}
                     \cup {<<a, b>> : a \in CsvInterviews, b \in CsvInterviews}}
    \cup {Application("app1", j, OfferStage, None, None, "candidate1",
                      None, None, None, None, <<>>)}

CsvInit ==
    /\ \E j \in CsvJobs : application \in CsvApplications(j)
    /\ field_groups \in SeqsUpTo(FieldSpec, MaxFields)
    /\ clock_reads = <<>>
    /\ current_job = NoJob
    /\ cache = NoCache
    /\ stage = NoStage
    /\ called = "none"
    /\ result = NotCalled
    /\ ClientIdle

CallGetHeaders ==
    /\ called' = "get_headers"
    /\ result' = Return(get_headers(field_groups))
    /\ clock_reads' = <<>>
    /\ UNCHANGED <<application, stage, client, current_job, cache, field_groups>>

CallGenerateRow ==
    /\ called' = "generate_row"
    /\ result' = generate_row(field_groups, application)
    /\ clock_reads' = generate_row_clock_reads(field_groups, application, 1)
    /\ UNCHANGED <<application, stage, client, current_job, cache, field_groups>>

CsvNext == CallGetHeaders \/ CallGenerateRow

SpecCsv == CsvInit /\ [][CsvNext]_vars

\* The values of the groups of a view, concatenated in the order of the view.
RECURSIVE ConcatValues(_)
ConcatValues(n) ==
    IF n = 0 THEN <<>>
    ELSE ConcatValues(n - 1) \o FieldGroup_get_values(field_groups[n], application).value

RECURSIVE ConcatHeaders(_)
ConcatHeaders(n) ==
    IF n = 0 THEN <<>> ELSE ConcatHeaders(n - 1) \o FieldGroup_get_headers(field_groups[n])

\* C14: generate_row returns the groups' values concatenated in list order,
\* get_headers the groups' headers concatenated in list order, both of the
\* same length, and every group returns as many values as it has headers.
C14_RowMatchesHeaders ==
    /\ called = "get_headers" => result = Return(ConcatHeaders(Len(field_groups)))
    /\ called = "generate_row" =>
          /\ \A i \in DOMAIN field_groups :
                LET values == FieldGroup_get_values(field_groups[i], application) IN
                values.ok /\ Len(values.value) = Len(FieldGroup_get_headers(field_groups[i]))
          /\ result.ok
          /\ result.value = ConcatValues(Len(field_groups))
          /\ Len(result.value) = Len(get_headers(field_groups))

\* C21 (as stated): generate_row reads the clock at most once for an
\* application, also when the view holds both BlockContext and
\* TakeHomePendingGrading.
C21_SingleClockReadPerRow ==
    called = "generate_row" => Len(clock_reads) <= 1

(* ------------------------ specification: reports ----------------------- *)
\* Three jobs: an SWE2 job with a take-home stage (AI-enabled), a Senior job
\* with a take-home stage and no DevAI interview (not AI-enabled), and an SWE1
\* job whose "Take Home Test" stage is schedulable (AI-enabled, no take-home
\* stage).
RecruiterScreenStage ==
    JobStage(Str(6), <<"Recruiter", "Screen">>,
             <<Interview(Str(61), <<"Recruiter", "Screen">>, FALSE)>>)
LiveTakeHomeTestStage ==
    JobStage(Str(5), TakeHomeTest, <<Interview(Str(51), TakeHomeTest, TRUE)>>)
Staffing == [recruiters |-> <<"Jane Smith">>, location |-> Some("Remote"), departments |-> <<"Engineering">>]
SeniorJob ==
    Job(Str(2), <<"Senior", "Software", "Engineer">>, Role("Engineer", "Senior"),
        <<RecruiterScreenStage, EvaluationStage, TakeHomeStage>>) @@ Staffing
LiveJob ==
    Job(Str(3), <<"Software", "Engineer", "1">>, Role("Engineer", "SWE1"),
        <<LiveTakeHomeTestStage, OfferStage>>) @@ Staffing
ReportJobs == <<EngineerJob @@ Staffing, SeniorJob, LiveJob>>

\* The applications of a job as the API serves them: the request fails, or
\* there is one record per stage of the job (and a prospect), each hydrated
\* from sound responses or from responses with the fault.
JobApi(j, kind) ==
    IF kind = "failed" THEN [applications |-> RequestFailed, worlds |-> <<>>]
    ELSE [applications |->
            Response(200, [i \in 1..(Len(j.stages) + 1) |->
               IF i > Len(j.stages) THEN AppData(100 + i, TRUE, j.stages[1].id[2], <<[id |-> j.id[2]]>>)
               ELSE AppData(100 + i, FALSE, j.stages[i].id[2], <<[id |-> j.id[2]]>>)]),
          worlds |-> [i \in 1..(Len(j.stages) + 1) |->
               World(j.stages[IF i > Len(j.stages) THEN 1 ELSE i].id[2], kind)]]

ReportInit ==
    /\ \E held \in SUBSET (1..Len(ReportJobs)) :
          by_id = [id \in {ReportJobs[i].id : i \in held} |->
                     ReportJobs[CHOOSE i \in held : ReportJobs[i].id = id]]
    /\ greenhouse \in [{ReportJobs[i].id : i \in 1..Len(ReportJobs)} ->
                         {"failed", "none", "unknown_status", "feed_non200"}]
    /\ pc = "start"
    /\ pos = 0
    /\ applications = <<>>
    /\ warnings = <<>>
    /\ requests = <<>>
    /\ application = NoApplication
    /\ stage = NoStage
    /\ called = "none"
    /\ result = NotCalled
    /\ ReportsIdle

\* The responses the client is served, per job.
ReportApis == [id \in DOMAIN greenhouse |->
                 JobApi(ReportJobs[CHOOSE i \in 1..Len(ReportJobs) : ReportJobs[i].id = id],
                        greenhouse[id])]

CallInterviewSnapshot ==
    /\ pc = "start"
    /\ pc' = "done"
    /\ called' = "interview_snapshot"
    /\ result' = interview_snapshot(get_all_jobs(by_id, ReportJobs), ReportApis)
    /\ UNCHANGED <<application, stage, greenhouse, by_id, pos, applications, warnings, requests,
                   reports>>

CallTakeHomePipelineSnapshot ==
    /\ pc = "start"
    /\ pc' = "done"
    /\ called' = "take_home_pipeline_snapshot"
    /\ result' = take_home_pipeline_snapshot(get_all_jobs(by_id, ReportJobs), ReportApis)
    /\ UNCHANGED <<application, stage, greenhouse, by_id, pos, applications, warnings, requests,
                   reports>>

RunReportJobPipeline ==
    /\ pc = "start"
    /\ pc' = "done"
    /\ called' = "report_job_pipeline"
    /\ \E i \in 1..Len(ReportJobs) :
          LET r == report_job_pipeline(by_id, ReportJobs[i].id, ReportApis) IN
          /\ result' = r.outcome
          /\ applications' = r.rows
          /\ current_job' = ReportJobs[i]
    /\ UNCHANGED <<application, stage, greenhouse, by_id, pos, warnings, requests, cache,
                   field_groups, clock_reads>>

ReportNext == CallInterviewSnapshot \/ CallTakeHomePipelineSnapshot \/ RunReportJobPipeline

SpecReport == ReportInit /\ [][ReportNext]_vars

RelevantStage(s) ==
    (\E k \in DOMAIN s.interviews : s.interviews[k].schedulable)
      \/ ((\A k \in DOMAIN s.interviews : ~s.interviews[k].schedulable)
            /\ Contains(s.name, TakeHome))

\* C15: no application at a stage that is neither schedulable nor take-home
\* is in a reporting view: interview_snapshot returns only applications at a
\* schedulable or take-home stage, take_home_pipeline_snapshot only
\* applications at a take-home stage of an AI-enabled job with a take-home
\* stage, and report_job_pipeline writes rows only for such stages, never
\* with stage type "other".
C15_NonRelevantNeverReported ==
    /\ (called = "interview_snapshot" /\ result.ok) =>
          \A i \in DOMAIN result.value :
              /\ RelevantStage(result.value[i].current_stage)
              /\ is_relevant_stage(result.value[i])
    /\ (called = "take_home_pipeline_snapshot" /\ result.ok) =>
          \A i \in DOMAIN result.value :
              LET app == result.value[i] IN
              /\ is_take_home_stage(app)
              /\ RelevantStage(app.current_stage)
              /\ is_ai_enabled(app.job)
              /\ has_take_home_stage(app.job)
              /\ app.job.id \in DOMAIN by_id
    /\ called = "report_job_pipeline" =>
          \A i \in DOMAIN applications :
              /\ applications[i][3] # "other"
              /\ \E k \in DOMAIN current_job.stages :
                    /\ current_job.stages[k].name = applications[i][2]
                    /\ RelevantStage(current_job.stages[k])

\* A snapshot over all three jobs returns applications and leaves out the
\* ones at the offer and recruiter-screen stages.
C15_Witness ==
    /\ called = "interview_snapshot"
    /\ result.ok
    /\ DOMAIN by_id = {ReportJobs[i].id : i \in 1..Len(ReportJobs)}
    /\ \A id \in DOMAIN greenhouse : greenhouse[id] = "none"
    /\ Len(result.value) = 6

(* ------------------------ specification: job cache --------------------- *)
\* The jobs get_jobs and fill_stages return: any role, and no stage, a stage
\* without interviews, or the stages of the client tests.
FetchedStages == {<<>>, <<OfferStage>>, <<EvaluationStage, TakeHomeStage>>}

CacheInit ==
    /\ \E n \in 0..MaxJobs :
          \E roles \in [1..n -> {Role("Engineer", "SWE2"), Role("Engineer", "Senior"),
                                   Role("Other", "Unknown")}],
             stages \in [1..n -> FetchedStages] :
            greenhouse = [jobs |-> [i \in 1..n |->
                            Job(Str(i), <<"Software", "Engineer", "2">>, roles[i], stages[i])]]
    /\ by_id = NoJobs
    /\ pc = "start"
    /\ pos = 0
    /\ applications = <<>>
    /\ warnings = <<>>
    /\ requests = <<>>
    /\ application = NoApplication
    /\ stage = NoStage
    /\ called = "none"
    /\ result = NotCalled
    /\ ReportsIdle

\* JobManager.refresh_cache
RefreshCache ==
    /\ pc = "start"
    /\ pc' = "saved"
    /\ called' = "refresh_cache"
    /\ cache' = [i \in DOMAIN greenhouse.jobs |-> JobDict(greenhouse.jobs[i])]
    /\ by_id' = [id \in {greenhouse.jobs[i].id : i \in DOMAIN greenhouse.jobs} |->
                   greenhouse.jobs[CHOOSE i \in DOMAIN greenhouse.jobs :
                                     greenhouse.jobs[i].id = id]]
    /\ UNCHANGED <<application, stage, result, greenhouse, pos, applications, warnings,
                   requests, current_job, field_groups, clock_reads>>

\* JobManager(client, cache_path) of a later run: _load_cache; result is the
\* by_id of the new manager.
LoadCache ==
    /\ pc = "saved"
    /\ pc' = "loaded"
    /\ called' = "_load_cache"
    /\ result' = Return(load_cache(cache))
    /\ UNCHANGED <<application, stage, greenhouse, by_id, pos, applications, warnings,
                   requests, reports>>

CacheNext == RefreshCache \/ LoadCache

SpecCache == CacheInit /\ [][CacheNext]_vars

\* C16: after refresh_cache and a reload of the file, every saved job is held
\* under its id with the same id, name and role, the same stage names in
\* order and the same interview schedulable flags in order.
C16_CacheRoundTrip ==
    pc = "loaded" =>
      \A id \in DOMAIN by_id :
        /\ id \in DOMAIN result.value
        /\ LET saved == by_id[id]
               loaded == result.value[id]
           IN /\ loaded.id = saved.id
              /\ loaded.name = saved.name
              /\ loaded.role = saved.role
              /\ Len(loaded.stages) = Len(saved.stages)
              /\ \A i \in DOMAIN saved.stages :
                    /\ loaded.stages[i].name = saved.stages[i].name
                    /\ Len(loaded.stages[i].interviews) = Len(saved.stages[i].interviews)
                    /\ \A k \in DOMAIN saved.stages[i].interviews :
                          loaded.stages[i].interviews[k].schedulable =
                            saved.stages[i].interviews[k].schedulable

(* ------------------------- Role from the job name ----------------------- *)
\* A job name is the sequence of its characters, so that `phrase in name` is
\* the substring test of the code and not a comparison of whole words.
UpperLetters == <<"A", "B", "C", "D", "E", "F", "G", "H", "I", "J", "K", "L", "M", "N", "O", "P", "Q", "R", "S", "T", "U", "V", "W", "X", "Y", "Z">>
LowerLetters == <<"a", "b", "c", "d", "e", "f", "g", "h", "i", "j", "k", "l", "m", "n", "o", "p", "q", "r", "s", "t", "u", "v", "w", "x", "y", "z">>

\* str.lower()
str_lower(s) ==
    [i \in DOMAIN s |->
        IF \E k \in DOMAIN UpperLetters : UpperLetters[k] = s[i]
        THEN LowerLetters[CHOOSE k \in DOMAIN UpperLetters : UpperLetters[k] = s[i]]
        ELSE s[i]]

kw_sp == <<" ">>
kw_software == <<"s", "o", "f", "t", "w", "a", "r", "e">>
kw_engineer == <<"e", "n", "g", "i", "n", "e", "e", "r">>
kw_swe == <<"s", "w", "e">>
kw_senior == <<"s", "e", "n", "i", "o", "r">>
kw_staff == <<"s", "t", "a", "f", "f">>
kw_software_engineer == kw_software \o kw_sp \o kw_engineer

EngineerPhrases == <<kw_software_engineer, kw_swe>>
SeniorPhrases ==
    <<kw_software_engineer \o kw_sp \o <<"3">>,
      kw_swe \o <<"3">>,
      kw_engineer \o kw_sp \o <<"3">>,
      kw_software_engineer \o kw_sp \o <<"i", "i", "i">>,
      kw_senior \o kw_sp \o kw_software_engineer,
      kw_senior \o kw_sp \o kw_swe,
      kw_senior \o kw_sp \o kw_engineer>>
SWE2Phrases ==
    <<kw_software_engineer \o kw_sp \o <<"2">>,
      kw_swe \o <<"2">>,
      kw_engineer \o kw_sp \o <<"2">>,
      kw_software_engineer \o kw_sp \o <<"i", "i">>>>
SWE1Phrases ==
    <<kw_software_engineer \o kw_sp \o <<"1">>,
      kw_swe \o <<"1">>,
      kw_engineer \o kw_sp \o <<"1">>,
      kw_software_engineer \o kw_sp \o <<"i">>>>
StaffPhrases ==
    <<kw_staff \o kw_sp \o kw_software_engineer,
      kw_staff \o kw_sp \o kw_swe,
      kw_staff \o kw_sp \o kw_engineer>>

\* any(phrase in job_name_lower for phrase in phrases)
AnyPhraseIn(phrases, job_name_lower) ==
    \E i \in DOMAIN phrases : Contains(job_name_lower, phrases[i])

\* opening.get("custom_fields", {}).get("level"); None when either key is absent
OpeningLevel(opening) ==
    IF "custom_fields" \in DOMAIN opening /\ "level" \in DOMAIN opening.custom_fields
    THEN Some(opening.custom_fields.level) ELSE None

\* The level of an opening to a seniority; None for a level that is not one of
\* P2..P5 (the loop goes on to the next opening).
LevelSeniority_unmatched_unknown(level) ==
    CASE level = "P2" -> Some("SWE1")
      [] level = "P3" -> Some("SWE2")
      [] level = "P4" -> Some("Senior")
      [] level = "P5" -> Some("Staff")
      [] OTHER -> Some("Unknown")
LevelSeniority(level) ==
    CASE level = "P2" -> Some("SWE1")
      [] level = "P3" -> Some("SWE2")
      [] level = "P4" -> Some("Senior")
      [] level = "P5" -> Some("Staff")
      [] OTHER -> None

\* for opening in openings_data: ... else: raise ValueError
RECURSIVE SeniorityFromOpenings(_, _)
SeniorityFromOpenings(openings_data, i) ==
    IF i > Len(openings_data) THEN Raise("ValueError")
    ELSE LET level == OpeningLevel(openings_data[i]) IN
         IF level # None /\ level[1] # "" /\ LevelSeniority(level[1]) # None
         THEN Return(LevelSeniority(level[1])[1])
         ELSE SeniorityFromOpenings(openings_data, i + 1)

\* GreenhouseClient._parse_role_from_job_name
parse_role_from_job_name(job_name, openings_data) ==
    LET job_name_lower == str_lower(job_name)
        function == IF AnyPhraseIn(EngineerPhrases, job_name_lower)
                    THEN "Engineer" ELSE "Other"
    IN IF function # "Engineer" THEN Return(Role(function, "Unknown"))
       ELSE IF AnyPhraseIn(SeniorPhrases, job_name_lower)
            THEN Return(Role(function, "Senior"))
       ELSE IF AnyPhraseIn(SWE2Phrases, job_name_lower)
            THEN Return(Role(function, "SWE2"))
       ELSE IF AnyPhraseIn(SWE1Phrases, job_name_lower)
            THEN Return(Role(function, "SWE1"))
       ELSE IF AnyPhraseIn(StaffPhrases, job_name_lower)
            THEN Return(Role(function, "Staff"))
       ELSE IF openings_data = <<>> THEN Raise("ValueError")
       ELSE LET seniority == SeniorityFromOpenings(openings_data, 1) IN
            IF seniority.ok THEN Return(Role(function, seniority.value))
            ELSE Raise("ValueError")

(* ------------------------------ Role spec ------------------------------- *)
JobNameWords ==
    {<<"S", "o", "f", "t", "w", "a", "r", "e">>,
     <<"E", "n", "g", "i", "n", "e", "e", "r">>,
     <<"S", "W", "E">>,
     <<"S", "e", "n", "i", "o", "r">>,
     <<"S", "t", "a", "f", "f">>,
     <<"2">>,
     <<"M", "a", "n", "a", "g", "e", "r">>}

RECURSIVE JoinWords(_, _)
JoinWords(words, i) ==
    IF i > Len(words) THEN <<>>
    ELSE IF i = Len(words) THEN words[i]
    ELSE words[i] \o kw_sp \o JoinWords(words, i + 1)

\* openings of a job: without custom fields, without a level, with an empty
\* level, with one of the levels the code maps, or with another level.
Openings ==
    {EmptyDict, [custom_fields |-> EmptyDict]} \cup
    {[custom_fields |-> [level |-> l]] : l \in {"", "P1", "P2", "P3", "P4", "P5"}}

RoleInit ==
    /\ \E n \in 1..MaxWords : \E words \in [1..n -> JobNameWords] :
         \E openings \in SeqsUpTo(Openings, MaxOpenings) :
            greenhouse = [id |-> Str(1), name |-> JoinWords(words, 1), openings |-> openings]
    /\ by_id = NoJobs
    /\ pc = "start"
    /\ pos = 0
    /\ applications = <<>>
    /\ warnings = <<>>
    /\ requests = <<>>
    /\ application = NoApplication
    /\ stage = NoStage
    /\ called = "none"
    /\ result = NotCalled
    /\ ReportsIdle

\* get_jobs, for the one job of the response: the role of the job
ParseRole ==
    /\ pc = "start"
    /\ pc' = "parsed"
    /\ called' = "_parse_role_from_job_name"
    /\ result' = parse_role_from_job_name(greenhouse.name, greenhouse.openings)
    /\ UNCHANGED <<application, stage, greenhouse, by_id, pos, applications, warnings,
                   requests, reports>>

\* refresh_cache: the job, whose stages came back empty, is written to the file
SaveRole ==
    /\ pc = "parsed"
    /\ result.ok
    /\ pc' = "saved"
    /\ called' = "refresh_cache"
    /\ cache' = <<JobDict(Job(greenhouse.id, greenhouse.name, result.value, <<>>))>>
    /\ UNCHANGED <<application, stage, result, greenhouse, by_id, pos, applications, warnings,
                   requests, current_job, field_groups, clock_reads>>

\* _load_cache of a later run: the Role rebuilt from the file
LoadRole ==
    /\ pc = "saved"
    /\ pc' = "loaded"
    /\ called' = "_load_cache"
    /\ result' = LET job == LoadJob(cache[1]) IN
                 IF job.ok THEN Return(job.value.role) ELSE job
    /\ UNCHANGED <<application, stage, greenhouse, by_id, pos, applications, warnings,
                   requests, reports>>

RoleNext == ParseRole \/ SaveRole \/ LoadRole

SpecRole == RoleInit /\ [][RoleNext]_vars

ClassifiedEngineer == AnyPhraseIn(EngineerPhrases, str_lower(greenhouse.name))

\* C17: a job name classified as Other gets Role(Other, Unknown) whatever the
\* openings; an Engineer name gets an Engineer role with a seniority among
\* SWE1, SWE2, Senior and Staff, or ValueError; the role rebuilt from the
\* cache is the parsed one, so no Role has function Other with a known
\* seniority or function Engineer with Unknown.
C17_RoleInvariant ==
    /\ called = "_parse_role_from_job_name" =>
         IF ClassifiedEngineer
         THEN IF result.ok
              THEN /\ result.value.function = "Engineer"
                   /\ result.value.seniority \in {"SWE1", "SWE2", "Senior", "Staff"}
              ELSE result = Raise("ValueError")
         ELSE result = Return(Role("Other", "Unknown"))
    /\ called = "_load_cache" =>
         /\ result.ok
         /\ result.value.function = "Other" => result.value.seniority = "Unknown"
         /\ result.value.function = "Engineer" => result.value.seniority # "Unknown"

\* An Engineer name without a seniority phrase whose first opening has a level
\* the code does not map and whose second opening decides the seniority.
C17_Witness ==
    /\ called = "_parse_role_from_job_name"
    /\ ClassifiedEngineer
    /\ Len(greenhouse.openings) = 2
    /\ OpeningLevel(greenhouse.openings[1]) = Some("P1")
    /\ OpeningLevel(greenhouse.openings[2]) = Some("P5")
    /\ result = Return(Role("Engineer", "Staff"))

(* --------------------- specification: order of stages ------------------- *)
\* The stages of TestJobTakeHomeSubmission, and a schedulable stage whose name
\* holds "Take Home"; a job has some of them, each once, in any order.
OrderStages ==
    {PhoneScreenStage,
     JobStage("stage2", TakeHomeTest, <<Interview("int2", TakeHomeTest, FALSE)>>),
     JobStage("stage3", <<"Final", "Interview">>, <<TechnicalPhoneScreen>>),
     JobStage("stage5", <<"Another", "Take", "Home", "Test">>,
              <<Interview("int2", TakeHomeTest, FALSE)>>),
     JobStage("stage6", <<"Take", "Home", "Review">>, <<TechnicalPhoneScreen>>)}
ExternalStage == JobStage("external_stage", <<"External", "Stage">>, <<TechnicalPhoneScreen>>)

StageOrderInit ==
    /\ \E stages \in SeqsUpTo(OrderStages, MaxOrderedStages) :
         /\ \A i, k \in DOMAIN stages : i # k => stages[i] # stages[k]
         /\ current_job = Job("123", <<"Test", "Job">>, Role("Engineer", "SWE2"), stages)
    /\ cache = NoCache
    /\ field_groups = <<>>
    /\ clock_reads = <<>>
    /\ application = NoApplication
    /\ stage = NoStage
    /\ called = "none"
    /\ result = NotCalled
    /\ ClientIdle

CallAtOrAfterTakeHomeSubmission ==
    /\ \E s \in OrderStages \cup {ExternalStage} :
         /\ stage' = s
         /\ result' = Return(at_or_after_take_home_submission(current_job, s))
    /\ called' = "at_or_after_take_home_submission"
    /\ UNCHANGED <<application, client, reports>>

StageOrderNext == CallAtOrAfterTakeHomeSubmission

SpecStageOrder == StageOrderInit /\ [][StageOrderNext]_vars

\* A stage without a schedulable interview whose name holds "Take Home".
NamedTakeHomeNotSchedulable(s) ==
    /\ Contains(s.name, TakeHome)
    /\ \A k \in DOMAIN s.interviews : ~s.interviews[k].schedulable
PositionsOf(s) == {i \in DOMAIN current_job.stages : current_job.stages[i] = s}
TakeHomePositions ==
    {i \in DOMAIN current_job.stages : NamedTakeHomeNotSchedulable(current_job.stages[i])}

BlockHydrated ==
    /\ pc = "done"
    /\ result.ok
    /\ pc' = "blocked"
    /\ called' = "get_application_blocker"
    /\ application' = result.value
    /\ result' = get_application_blocker(result.value)
    /\ UNCHANGED <<stage, greenhouse, by_id, pos, applications, warnings, requests, reports>>

FeedBlockerNext == HydrateApplication \/ BlockHydrated

SpecFeedBlocker == FeedInit /\ [][FeedBlockerNext]_vars

SharedCreatedAt(interviews) ==
    \A i, k \in DOMAIN interviews : interviews[i].created_at = interviews[k].created_at

\* C29: the interviews of a hydrated application all carry the same
\* created_at, and get_application_blocker on a hydrated application whose
\* status is PENDING_SCORECARD or PENDING_DECISION returns the blocker of the
\* first interview of the list.
C29_SharedCreatedAtFirstSelected ==
    /\ (called = "_hydrate_application" /\ result.ok) => SharedCreatedAt(result.value.interviews)
    /\ (/\ called = "get_application_blocker"
        /\ get_stage_status(application) \in {"PENDING_SCORECARD", "PENDING_DECISION"})
       => /\ SharedCreatedAt(application.interviews)
          /\ result.ok
          /\ result = BlockerOrNone(get_stage_status(application), Some("interview_date"),
                                    application.interviews[1].date)

\* the part of C29 that the code keeps: one created_at for all interviews, and
\* the first interview selected whenever the selection returns
C29_SharedCreatedAt ==
    /\ (called = "_hydrate_application" /\ result.ok) => SharedCreatedAt(result.value.interviews)
    /\ (/\ called = "get_application_blocker"
        /\ get_stage_status(application) \in {"PENDING_SCORECARD", "PENDING_DECISION"}
        /\ result.ok)
       => result = BlockerOrNone(get_stage_status(application), Some("interview_date"),
                                 application.interviews[1].date)

\* two interviews without created_at: the selection raises
C29_NullComparison ==
    /\ called = "get_application_blocker"
    /\ Len(application.interviews) >= 2
    /\ application.interviews[1].created_at = None
    /\ ~result.ok

\* two interviews with one created_at: the first is selected
C29_FirstSelected ==
    /\ called = "get_application_blocker"
    /\ Len(application.interviews) >= 2
    /\ application.interviews[1].created_at # None
    /\ get_stage_status(application) \in {"PENDING_SCORECARD", "PENDING_DECISION"}
    /\ result.ok

(* ---------------------- specification: refresh_cache -------------------- *)
\* In this specification job.stages is an optional: None as get_jobs leaves
\* it, Some(list) once fill_stages has assigned the list, so that None and an
\* empty list of stages stay apart.

\* get_jobs: the jobs of a response, each with stages = None; a failed request,
\* a status other than 200 and a job whose role cannot be parsed raise.
RECURSIVE JobsFrom(_, _, _)
JobsFrom(jobs_data, i, jobs) ==
    IF i > Len(jobs_data) THEN Return(jobs)
    ELSE LET role == parse_role_from_job_name(jobs_data[i].name, jobs_data[i].openings) IN
         IF ~role.ok THEN role
         ELSE JobsFrom(jobs_data, i + 1,
                       Append(jobs, Job(Str(jobs_data[i].id), jobs_data[i].name, role.value, None)))

get_jobs(response) ==
    IF response.raised THEN Raise(RequestError)
    ELSE IF response.status_code # 200 THEN Raise("Exception: Failed to fetch jobs")
    ELSE JobsFrom(response.json, 1, <<>>)

StagesFrom(stages_data) ==
    [i \in DOMAIN stages_data |->
        JobStage(Str(stages_data[i].id), stages_data[i].name,
                 [k \in DOMAIN stages_data[i].interviews |->
                     Interview(Str(stages_data[i].interviews[k].id),
                               stages_data[i].interviews[k].name,
                               stages_data[i].interviews[k].schedulable)])]

\* a fill_stages that hands the job back untouched when the stages cannot be read
fill_stages_ignoring_failure(job, response) ==
    IF response.raised \/ response.status_code # 200 THEN Return(job)
    ELSE Return([job EXCEPT !.stages = Some(StagesFrom(response.json))])

\* GreenhouseClient.fill_stages
fill_stages(job, response) ==
    IF response.raised THEN Raise(RequestError)
    ELSE IF response.status_code # 200 THEN Raise("Exception: Failed to fetch stages")
    ELSE Return([job EXCEPT !.stages = Some(StagesFrom(response.json))])

\* for job in jobs: all_jobs.append(self.client.fill_stages(job))
RECURSIVE FillAllFrom(_, _, _, _)
FillAllFrom(jobs, api, i, all_jobs) ==
    IF i > Len(jobs) THEN Return(all_jobs)
    ELSE LET job_with_stages == fill_stages(jobs[i], api.stages[jobs[i].id]) IN
         IF ~job_with_stages.ok THEN job_with_stages
         ELSE FillAllFrom(jobs, api, i + 1, Append(all_jobs, job_with_stages.value))

\* for department in RELEVANT_DEPARTMENTS: ...
RECURSIVE RefreshFrom(_, _, _, _)
RefreshFrom(departments, api, d, all_jobs) ==
    IF d > Len(departments) THEN Return(all_jobs)
    ELSE LET jobs == get_jobs(api.jobs[departments[d]]) IN
         IF ~jobs.ok THEN jobs
         ELSE LET filled == FillAllFrom(jobs.value, api, 1, all_jobs) IN
              IF ~filled.ok THEN filled
              ELSE RefreshFrom(departments, api, d + 1, filled.value)

\* the dictionary of a job in the file: `... for stage in job.stages] if job.stages else []`
RefreshedJobDict(j) ==
    JobDict([j EXCEPT !.stages = IF j.stages = None THEN <<>> ELSE j.stages[1]])

\* self.by_id = {job.id: job for job in all_jobs}: the last job of an id stays
ById(all_jobs) ==
    [id \in {all_jobs[i].id : i \in DOMAIN all_jobs} |->
        all_jobs[MaxOf({i \in DOMAIN all_jobs : all_jobs[i].id = id})]]

RelevantDepartments == <<"Engineering", "Product">>

\* Jobs of a department, none listed twice: a senior engineer, a manager, and an engineer whose
\* seniority neither the name nor the openings give.
JobsData ==
    {[id |-> 1, name |-> <<"S", "e", "n", "i", "o", "r", " ", "S", "W", "E">>, openings |-> <<>>],
     [id |-> 2, name |-> <<"M", "a", "n", "a", "g", "e", "r">>, openings |-> <<>>],
     [id |-> 3, name |-> <<"S", "W", "E">>, openings |-> <<>>]}
StagesData ==
    <<[id |-> 1, name |-> <<"Evaluation", "Stage">>,
       interviews |-> <<[id |-> 11, name |-> <<"Technical", "Phone", "Screen">>,
                         schedulable |-> TRUE]>>]>>
StagesResponses ==
    {RequestFailed, Response(404, <<>>), Response(200, <<>>), Response(200, StagesData)}
JobsResponses ==
    {RequestFailed, Response(500, <<>>)} \cup
    {Response(200, l) : l \in {s \in SeqsUpTo(JobsData, MaxJobs) :
                                  \A i, k \in DOMAIN s : s[i] = s[k] => i = k}}

\* What an earlier refresh left: nothing, or one job in by_id and in the file.
EarlierJob == Job(Str(9), <<"S", "t", "a", "f", "f", " ", "S", "W", "E">>, Role("Engineer", "Staff"), Some(<<>>))

RefreshInit ==
    /\ \E jobs \in [{RelevantDepartments[d] : d \in DOMAIN RelevantDepartments} -> JobsResponses],
          stages \in [{Str(1), Str(2)} -> StagesResponses] :
         greenhouse = [jobs |-> jobs, stages |-> stages]
    /\ \/ by_id = NoJobs /\ cache = NoCache
       \/ by_id = ById(<<EarlierJob>>) /\ cache = <<RefreshedJobDict(EarlierJob)>>
    /\ pc = "start"
    /\ pos = 0
    /\ applications = <<>>
    /\ warnings = <<>>
    /\ requests = <<>>
    /\ application = NoApplication
    /\ stage = NoStage
    /\ called = "none"
    /\ result = NotCalled
    /\ current_job = NoJob
    /\ field_groups = <<>>
    /\ clock_reads = <<>>

\* JobManager.refresh_cache against the API
RefreshCacheFromApi ==
    /\ pc = "start"
    /\ called' = "refresh_cache"
    /\ LET all_jobs == RefreshFrom(RelevantDepartments, greenhouse, 1, <<>>) IN
       IF all_jobs.ok
       THEN /\ cache' = [i \in DOMAIN all_jobs.value |-> RefreshedJobDict(all_jobs.value[i])]
            /\ by_id' = ById(all_jobs.value)
            /\ result' = Return(Len(all_jobs.value))
            /\ pc' = "refreshed"
       ELSE /\ result' = all_jobs
            /\ pc' = "raised"
            /\ UNCHANGED <<by_id, cache>>
    /\ UNCHANGED <<application, stage, greenhouse, pos, applications, warnings, requests,
                   current_job, field_groups, clock_reads>>

\* JobManager.get_by_id
CallGetById ==
    /\ called' = "get_by_id"
    /\ \E id \in {Str(1), Str(3), Str(9)} : result' = Return(get_by_id(by_id, id))
    /\ UNCHANGED <<application, stage, greenhouse, by_id, pc, pos, applications, warnings,
                   requests, reports>>

RefreshNext == RefreshCacheFromApi \/ CallGetById

SpecRefresh == RefreshInit /\ [][RefreshNext]_vars

\* The jobs that the departments' responses hold, and whether some request of
\* the refresh fails: a jobs request, the role of a job, or the stages request
\* of a job.
ServedJobs ==
    UNION {IF greenhouse.jobs[d].raised \/ greenhouse.jobs[d].status_code # 200 THEN {}
           ELSE {greenhouse.jobs[d].json[i] : i \in DOMAIN greenhouse.jobs[d].json} :
           d \in DOMAIN greenhouse.jobs}
SomeFetchFails ==
    \/ \E d \in DOMAIN greenhouse.jobs :
          greenhouse.jobs[d].raised \/ greenhouse.jobs[d].status_code # 200
    \/ \E job_data \in ServedJobs :
          \/ ~parse_role_from_job_name(job_data.name, job_data.openings).ok
          \/ greenhouse.stages[Str(job_data.id)].raised
          \/ greenhouse.stages[Str(job_data.id)].status_code # 200

\* C28: no job in by_id, and so no job that get_by_id returns, has stages
\* None; a refresh in which get_jobs or fill_stages raises leaves by_id and the
\* cache file as they were; a refresh in which none raises stores every served
\* job with its stages filled.
C28_StagesFilledBeforeVisible ==
    /\ [](/\ \A id \in DOMAIN by_id : by_id[id].stages # None
          /\ (called = "get_by_id" /\ result.value # None) => result.value[1].stages # None)
    /\ [][pc = "start" /\ pc' # "start" =>
            IF SomeFetchFails
            THEN pc' = "raised" /\ by_id' = by_id /\ cache' = cache
            ELSE /\ pc' = "refreshed"
                 /\ DOMAIN by_id' = {Str(job_data.id) : job_data \in ServedJobs}
                 /\ Len(cache') >= Cardinality(DOMAIN by_id')]_vars

\* The second department's jobs cannot be fetched after the first job of the
\* first department had its stages filled: the earlier job is still the only
\* one held.
C28_Witness ==
    /\ pc = "raised"
    /\ ~greenhouse.jobs["Engineering"].raised
    /\ greenhouse.jobs["Engineering"].status_code = 200
    /\ Len(greenhouse.jobs["Engineering"].json) >= 1
    /\ greenhouse.jobs["Engineering"].json[1].id = 1
    /\ ~greenhouse.stages[Str(1)].raised
    /\ greenhouse.stages[Str(1)].status_code = 200
    /\ greenhouse.jobs["Product"].raised
    /\ DOMAIN by_id = {Str(9)}
    /\ Len(cache) = 1

(* ---------------- specification: _make_rate_limited_request ------------- *)
max_retries == 5
base_delay == 1

\* What one session.request gives: a response with its status and its
\* Retry-After header (None when absent, else the text), or a
\* requests.exceptions.RequestException.
HttpResponse(status_code, retry_after) ==
    [raised |-> FALSE, status_code |-> status_code, retry_after |-> retry_after]
RequestException == [raised |-> TRUE, status_code |-> 0, retry_after |-> None]

Digits == <<"0", "1", "2", "3", "4", "5", "6", "7", "8", "9">>
IsDigit(c) == \E d \in DOMAIN Digits : Digits[d] = c
DigitValue(c) == (CHOOSE d \in DOMAIN Digits : Digits[d] = c) - 1

RECURSIVE IntFrom(_, _, _)
IntFrom(text, i, n) ==
    IF i > Len(text) THEN Return(n)
    ELSE IF ~IsDigit(text[i]) THEN Raise("ValueError")
    ELSE IntFrom(text, i + 1, 10 * n + DigitValue(text[i]))

\* int(retry_after) of a header text
int(text) == IF text = <<>> THEN Raise("ValueError") ELSE IntFrom(text, 1, 0)

\* a delay that never reads the header
RateLimitDelay_ignoring_header(attempt, retry_after) == base_delay * (2 ^ attempt)

\* the delay after a 429: the backoff, replaced by the header when it is
\* present, non-empty and an integer
RateLimitDelay(attempt, retry_after) ==
    LET delay == base_delay * (2 ^ attempt) IN
    IF retry_after # None /\ retry_after[1] # <<>>
    THEN IF int(retry_after[1]).ok THEN int(retry_after[1]).value ELSE delay
    ELSE delay

MaxRetriesError == "Exception: Max retries (5) exceeded"

SessionOutcomes ==
    {RequestException, HttpResponse(200, None), HttpResponse(404, None)} \cup
    {HttpResponse(429, h) : h \in {None, Some(<<>>), Some(<<"1", "2">>),
                                   Some(<<"s", "o", "o", "n">>)}}

\* the call has neither returned nor raised
NothingYet == [ok |-> FALSE, error |-> "in progress"]

\* requests holds the outcome of every session.request made, warnings the
\* delay of every time.sleep, pos the attempt of the loop.
RequestInit ==
    /\ pc = "loop"
    /\ pos = 0
    /\ requests = <<>>
    /\ warnings = <<>>
    /\ greenhouse = NoApi
    /\ by_id = NoJobs
    /\ applications = <<>>
    /\ application = NoApplication
    /\ stage = NoStage
    /\ called = "_make_rate_limited_request"
    /\ result = NothingYet
    /\ ReportsIdle

\* one iteration of `for attempt in range(max_retries)`
Attempt ==
    /\ pc = "loop"
    /\ pos < max_retries
    /\ \E response \in SessionOutcomes :
         /\ requests' = Append(requests, response)
         /\ IF response.raised
            THEN IF pos = max_retries - 1
                 THEN /\ result' = Raise(RequestError)
                      /\ pc' = "done"
                      /\ UNCHANGED <<pos, warnings>>
                 ELSE /\ warnings' = Append(warnings, base_delay * (2 ^ pos))
                      /\ pos' = pos + 1
                      /\ UNCHANGED <<pc, result>>
            ELSE IF response.status_code = 429
                 THEN /\ warnings' = Append(warnings, RateLimitDelay(pos, response.retry_after))
                      /\ pos' = pos + 1
                      /\ UNCHANGED <<pc, result>>
                 ELSE /\ result' = Return(response)
                      /\ pc' = "done"
                      /\ UNCHANGED <<pos, warnings>>
    /\ UNCHANGED <<application, stage, called, greenhouse, by_id, applications, reports>>

\* the raise after the loop
ExhaustRetries ==
    /\ pc = "loop"
    /\ pos = max_retries
    /\ result' = Raise(MaxRetriesError)
    /\ pc' = "done"
    /\ UNCHANGED <<application, stage, called, greenhouse, by_id, pos, applications, warnings,
                   requests, reports>>

RequestNext == Attempt \/ ExhaustRetries

SpecRequest == RequestInit /\ [][RequestNext]_vars

\* a request returns or raises and a sleep ends, so the loop goes on
SpecRequestLive == SpecRequest /\ WF_vars(RequestNext)

RateLimited(k) == ~requests[k].raised /\ requests[k].status_code = 429
\* the wait that follows attempt k: the header of a 429 when it is the integer
\* 12, else 2^(k-1)
ExpectedWait(k) ==
    IF RateLimited(k) /\ requests[k].retry_after = Some(<<"1", "2">>) THEN 12 ELSE 2 ^ (k - 1)

====
